---- MODULE Spec2Model ----
(***************************************************************************)
(* A model of the sigparser ingestion pipeline: the address parser, the    *)
(* blacklist engine, the entity store, the message processor and the       *)
(* per-account sync coordinator (batchSync / incrementalSync / fullSync).  *)
(***************************************************************************)
EXTENDS Integers, Sequences, FiniteSets, TLC

(***************************************************************************)
(* JavaScript string primitives, on TLA+ strings.  Positions are 0-based   *)
(* as in the source; -1 means "not found".                                 *)
(***************************************************************************)
NULL == "<null>"

UpperChars == "ABCDEFGHIJKLMNOPQRSTUVWXYZ"

LowerChars == "abcdefghijklmnopqrstuvwxyz"

charAt(s, i) == SubSeq(s, i + 1, i + 1)

substring(s, from, to) == SubSeq(s, from + 1, to)

RECURSIVE indexOfFrom(_, _, _)
indexOfFrom(s, sub, i) ==
  IF i + Len(sub) > Len(s) THEN -1
  ELSE IF substring(s, i, i + Len(sub)) = sub THEN i
  ELSE indexOfFrom(s, sub, i + 1)

indexOf(s, sub) == indexOfFrom(s, sub, 0)

RECURSIVE lastIndexOfFrom(_, _, _)
lastIndexOfFrom(s, sub, i) ==
  IF i < 0 THEN -1
  ELSE IF substring(s, i, i + Len(sub)) = sub THEN i
  ELSE lastIndexOfFrom(s, sub, i - 1)

lastIndexOf(s, sub) == lastIndexOfFrom(s, sub, Len(s) - Len(sub))

includes(s, sub) == indexOf(s, sub) # -1

startsWith(s, sub) == Len(sub) <= Len(s) /\ substring(s, 0, Len(sub)) = sub

endsWith(s, sub) == Len(sub) <= Len(s) /\ substring(s, Len(s) - Len(sub), Len(s)) = sub

toLowerChar(c) ==
  LET i == indexOf(UpperChars, c)
  IN  IF i = -1 THEN c ELSE charAt(LowerChars, i)

RECURSIVE toLowerCase(_)
toLowerCase(s) ==
  IF Len(s) = 0 THEN s
  ELSE toLowerChar(charAt(s, 0)) \o toLowerCase(substring(s, 1, Len(s)))

IsSpace(c) == c \in {" ", "\t", "\n", "\r"}

RECURSIVE trimStart(_)
trimStart(s) ==
  IF Len(s) > 0 /\ IsSpace(charAt(s, 0)) THEN trimStart(substring(s, 1, Len(s))) ELSE s

RECURSIVE trimEnd(_)
trimEnd(s) ==
  IF Len(s) > 0 /\ IsSpace(charAt(s, Len(s) - 1)) THEN trimEnd(substring(s, 0, Len(s) - 1)) ELSE s

trim(s) == trimEnd(trimStart(s))

(***************************************************************************)
(* utils/email.ts : the address parser.                                    *)
(***************************************************************************)
extractDomain(email) ==
  LET atIndex == lastIndexOf(email, "@")
  IN  IF atIndex = -1 \/ atIndex = Len(email) - 1 THEN NULL
      ELSE toLowerCase(substring(email, atIndex + 1, Len(email)))

isValidEmail(email) ==
  LET atIndex == indexOf(email, "@")
  IN  IF atIndex < 1 \/ atIndex = Len(email) - 1 THEN FALSE
      ELSE includes(substring(email, atIndex + 1, Len(email)), ".")

\* a variant of the scanner that splits at every comma
RECURSIVE splitScanEveryComma(_, _, _, _, _, _)
splitScanEveryComma(header, i, results, current, inQuotes, inAngleBrackets) ==
  IF i >= Len(header)
  THEN IF current # "" THEN Append(results, current) ELSE results
  ELSE IF charAt(header, i) = ","
  THEN splitScanEveryComma(header, i + 1, Append(results, current), "", inQuotes, inAngleBrackets)
  ELSE splitScanEveryComma(header, i + 1, results, current \o charAt(header, i), inQuotes,
                           inAngleBrackets)

\* The scanner state of splitEmailList after consuming header[1..i]:
\* results so far, the current token, and the two mode flags.
RECURSIVE splitScan(_, _, _, _, _, _)
splitScan(header, i, results, current, inQuotes, inAngleBrackets) ==
  IF i >= Len(header)
  THEN IF current # "" THEN Append(results, current) ELSE results
  ELSE LET char == charAt(header, i)
       IN  IF char = "\"" /\ ~inAngleBrackets
           THEN splitScan(header, i + 1, results, current \o char, ~inQuotes, inAngleBrackets)
           ELSE IF char = "<" /\ ~inQuotes
           THEN splitScan(header, i + 1, results, current \o char, inQuotes, TRUE)
           ELSE IF char = ">" /\ ~inQuotes
           THEN splitScan(header, i + 1, results, current \o char, inQuotes, FALSE)
           ELSE IF char = "," /\ ~inQuotes /\ ~inAngleBrackets
           THEN splitScan(header, i + 1, Append(results, current), "", inQuotes, inAngleBrackets)
           ELSE splitScan(header, i + 1, results, current \o char, inQuotes, inAngleBrackets)

splitEmailList(header) == splitScan(header, 0, <<>>, "", FALSE, FALSE)

\* /<([^>]+)>/.exec(input): the leftmost "<" that is followed by at least one
\* non-">" character and then a ">"; the capture is the run up to the first ">".
RECURSIVE angleMatchFrom(_, _)
angleMatchFrom(input, i) ==
  LET lt == indexOfFrom(input, "<", i)
  IN  IF lt = -1 THEN NULL
      ELSE LET gt == indexOfFrom(input, ">", lt + 1)
           IN  IF gt = -1 THEN NULL
               ELSE IF gt = lt + 1 THEN angleMatchFrom(input, lt + 1)
               ELSE substring(input, lt + 1, gt)

angleMatch(input) == angleMatchFrom(input, 0)

\* parseSingleEmail returns null or one ParsedEmail: here <<>> or <<parsed>>.
parseSingleEmail(input) ==
  LET captured == angleMatch(input)
  IN  IF captured # NULL
      THEN LET email  == trim(toLowerCase(captured))
               rawName == trim(substring(input, 0, indexOf(input, "<")))
               name   == IF Len(rawName) >= 2 /\ startsWith(rawName, "\"") /\ endsWith(rawName, "\"")
                         THEN substring(rawName, 1, Len(rawName) - 1)
                         ELSE IF rawName = "\"" THEN "" ELSE rawName
               domain == extractDomain(email)
           IN  IF ~isValidEmail(email) \/ domain = NULL THEN <<>>
               ELSE <<[email |-> email, name |-> IF name # "" THEN name ELSE NULL, domain |-> domain]>>
      ELSE LET email  == trim(toLowerCase(input))
               domain == extractDomain(email)
           IN  IF ~isValidEmail(email) \/ domain = NULL THEN <<>>
               ELSE <<[email |-> email, name |-> NULL, domain |-> domain]>>

RECURSIVE parseParts(_, _)
parseParts(parts, i) ==
  IF i > Len(parts) THEN <<>>
  ELSE LET trimmed == trim(parts[i])
       IN  (IF trimmed = "" THEN <<>> ELSE parseSingleEmail(trimmed)) \o parseParts(parts, i + 1)

parseEmailHeader(header) == parseParts(splitEmailList(header), 1)

(***************************************************************************)
(* types/constants.ts : the transactional pattern table.  A pattern is a   *)
(* sequence of items; an item accepts one character of a class (or of its  *)
(* complement), once, optionally, or one-or-more times.  All patterns      *)
(* carry the /i flag.                                                      *)
(***************************************************************************)
RECURSIVE Lit(_)
Lit(str) ==
  IF Len(str) = 0 THEN <<>>
  ELSE <<[chars |-> {toLowerChar(charAt(str, 0))}, neg |-> FALSE, min |-> 1, many |-> FALSE]>>
       \o Lit(substring(str, 1, Len(str)))

Opt(cs) == <<[chars |-> cs, neg |-> FALSE, min |-> 0, many |-> FALSE]>>

PlusNot(cs) == <<[chars |-> cs, neg |-> TRUE, min |-> 1, many |-> TRUE]>>

OneOf(cs) == <<[chars |-> cs, neg |-> FALSE, min |-> 1, many |-> FALSE]>>

Sep == Opt({".", "_", "-"})

Pat(atStart, items, atEnd) == [atStart |-> atStart, items |-> items, atEnd |-> atEnd]

\* ^name@
Local(name) == Pat(TRUE, Lit(name) \o Lit("@"), FALSE)

\* ^name[s]?@
LocalS(name) == Pat(TRUE, Lit(name) \o Opt({"s"}) \o Lit("@"), FALSE)

\* @sub\.[^.]+\.[^.]+$
Sub(items) ==
  Pat(FALSE, Lit("@") \o items \o Lit(".") \o PlusNot({"."}) \o Lit(".") \o PlusNot({"."}), TRUE)

TRANSACTIONAL_EMAIL_PATTERNS ==
  << Pat(TRUE, Lit("no") \o Sep \o Lit("reply"), FALSE),
     Pat(TRUE, Lit("do") \o Sep \o Lit("not") \o Sep \o Lit("reply"), FALSE),
     Local("root"),
     Pat(TRUE, Lit("mailer") \o Sep \o Lit("daemon@"), FALSE),
     Local("postmaster"),
     LocalS("bounce"),
     Pat(TRUE, Lit("auto") \o Sep \o Lit("reply"), FALSE),
     Pat(TRUE, Lit("automated"), FALSE),
     LocalS("notification"),
     Local("notify"),
     LocalS("alert"),
     Local("news"), Local("newsletter"),
     Local("marketing"),
     LocalS("promo"), LocalS("promotion"),
     LocalS("campaign"),
     Local("support"),
     Local("info"),
     Local("sales"),
     Local("hello"),
     Local("contact"),
     Local("team"),
     Local("feedback"),
     Local("billing"),
     LocalS("subscription"),
     LocalS("update"),
     Local("service"),
     Local("help"),
     Local("admin"),
     Local("webmaster"),
     Pat(FALSE, Lit(".edu"), TRUE),
     Pat(FALSE, Lit(".edu") \o OneOf({" ", "\t", "\n", "\r"}), FALSE),
     Pat(FALSE, Lit("@") \o PlusNot({"@"}) \o Lit(".") \o PlusNot({"."}) \o Lit(".") \o PlusNot({"."}), TRUE),
     Sub(Lit("email")),
     Sub(Lit("e")),
     Sub(Lit("t")),
     Sub(Lit("m")),
     Sub(Lit("action")),
     Sub(Lit("notify")),
     Sub(Lit("notification") \o Opt({"s"})),
     Sub(Lit("alert") \o Opt({"s"})),
     Sub(Lit("mail")),
     Sub(Lit("news")),
     Sub(Lit("promo")),
     Sub(Lit("offer") \o Opt({"s"})),
     Sub(Lit("campaign")),
     Sub(Lit("info")),
     Sub(Lit("message") \o Opt({"s"})) >>

WHITELISTED_DOMAINS == <<"playstation.sony.com">>

\* a variant of the character test without the /i flag
AcceptsCaseSensitive(item, c) == (c \in item.chars) # item.neg

Accepts(item, c) == (toLowerChar(c) \in item.chars) # item.neg

\* items[k..] match s from position i (and reach the end of s if atEnd).
RECURSIVE matchHere(_, _, _, _, _)
matchHere(items, k, s, i, atEnd) ==
  IF k > Len(items) THEN (~atEnd \/ i = Len(s))
  ELSE LET item == items[k]
           one  == i < Len(s) /\ Accepts(item, charAt(s, i))
       IN  \/ item.min = 0 /\ matchHere(items, k + 1, s, i, atEnd)
           \/ one /\ matchHere(items, k + 1, s, i + 1, atEnd)
           \/ one /\ item.many /\ matchHere(items, k, s, i + 1, atEnd)

\* RegExp.prototype.test
test(pattern, s) ==
  \E i \in 0..(IF pattern.atStart THEN 0 ELSE Len(s)) :
     matchHere(pattern.items, 1, s, i, pattern.atEnd)

\* BlacklistService.isTransactional
isTransactional(email) ==
  LET emailLower == toLowerCase(email)
  IN  IF \E k \in 1..Len(WHITELISTED_DOMAINS) : includes(emailLower, "@" \o WHITELISTED_DOMAINS[k])
      THEN FALSE
      ELSE \E k \in 1..Len(TRANSACTIONAL_EMAIL_PATTERNS) : test(TRANSACTIONAL_EMAIL_PATTERNS[k], email)

(***************************************************************************)
(* Dates.  A 'YYYY-MM-DD' string is the tuple <<y, m, d>>; an ISO-8601     *)
(* timestamp is <<y, m, d, h>> (resolution: one hour); null is <<>>.       *)
(* A time value (internalDate, Date.now()) is a number of hours since      *)
(* 2000-01-01T00:00Z.  String comparison of such fixed-width strings is    *)
(* the lexicographic comparison of the tuples.                             *)
(***************************************************************************)
IsLeap(y) == (y % 4 = 0 /\ y % 100 # 0) \/ y % 400 = 0

DaysInMonth(y, m) ==
  IF m = 2 THEN (IF IsLeap(y) THEN 29 ELSE 28)
  ELSE IF m \in {4, 6, 9, 11} THEN 30 ELSE 31

\* Date.setUTCDate with an out-of-range day: carry into months and years.
RECURSIVE NormalizeDate(_, _, _)
NormalizeDate(y, m, d) ==
  IF d > DaysInMonth(y, m)
  THEN IF m = 12 THEN NormalizeDate(y + 1, 1, d - DaysInMonth(y, m))
       ELSE NormalizeDate(y, m + 1, d - DaysInMonth(y, m))
  ELSE IF d < 1
  THEN IF m = 1 THEN NormalizeDate(y - 1, 12, d + DaysInMonth(y - 1, 12))
       ELSE NormalizeDate(y, m - 1, d + DaysInMonth(y, m - 1))
  ELSE <<y, m, d>>

\* SyncService.addDays
\* a variant that steps twice as far
addDaysTwice(dateStr, days) == NormalizeDate(dateStr[1], dateStr[2], dateStr[3] + 2 * days)

addDays(dateStr, days) == NormalizeDate(dateStr[1], dateStr[2], dateStr[3] + days)

\* new Date(t).toISOString()
toISOString(t) == NormalizeDate(2000, 1, 1 + (t \div 24)) \o <<t % 24>>

\* new Date().toISOString().slice(0, 10)
isoDay(t) == SubSeq(toISOString(t), 1, 3)

RECURSIVE LexLess(_, _)
LexLess(a, b) ==
  IF Len(b) = 0 THEN FALSE
  ELSE IF Len(a) = 0 THEN TRUE
  ELSE IF a[1] # b[1] THEN a[1] < b[1]
  ELSE LexLess(Tail(a), Tail(b))

\* a variant of MAX that keeps its second argument
SqlMaxSecond(a, b) == b

\* SQLite MAX(x, y) / MIN(x, y) / COALESCE(x, y) on TEXT
SqlMax(a, b) == IF LexLess(a, b) THEN b ELSE a

\* a variant that keeps its second argument
SqlMinSecond(a, b) == b

SqlMin(a, b) == IF LexLess(b, a) THEN b ELSE a

Coalesce(a, b) == IF a # <<>> THEN a ELSE b

(***************************************************************************)
(* The relational store (D1).  db is a record of tables; a table is a      *)
(* function from the primary keys of its rows to the rows.                 *)
(***************************************************************************)
Put(table, key, row) == [k \in DOMAIN table \cup {key} |-> IF k = key THEN row ELSE table[k]]

Drop(table, keys) == [k \in DOMAIN table \ keys |-> table[k]]

EmptyTable == [k \in {} |-> {}]

EmptyDb ==
  [ companies |-> EmptyTable, domains |-> EmptyTable, contacts |-> EmptyTable,
    emails |-> EmptyTable, processed_messages |-> EmptyTable, sync_state |-> EmptyTable,
    blacklist |-> EmptyTable ]

ZeroStats == [emails_to |-> 0, emails_from |-> 0, emails_included |-> 0]

NewCompanyRow(name) ==
  [ name |-> name, emails_to |-> 0, emails_from |-> 0, emails_included |-> 0,
    first_seen |-> <<>>, last_seen |-> <<>> ]

NewDomainRow(companyId) ==
  [ company_id |-> companyId, is_primary |-> 1, emails_to |-> 0, emails_from |-> 0,
    emails_included |-> 0, first_seen |-> <<>>, last_seen |-> <<>> ]

NewContactRow(companyId, name) ==
  [ company_id |-> companyId, name |-> name, emails_to |-> 0, emails_from |-> 0,
    emails_included |-> 0, recent_threads |-> <<>>, first_seen |-> <<>>, last_seen |-> <<>> ]

NewEmailRow(contactId, domain, name) ==
  [ contact_id |-> contactId, domain |-> domain, name_observed |-> name, is_active |-> 1,
    emails_to |-> 0, emails_from |-> 0, emails_included |-> 0, recent_threads |-> <<>>,
    first_seen |-> <<>>, last_seen |-> <<>> ]

\* UPDATE t SET emails_to = emails_to + ?, emails_from = emails_from + ?,
\*   emails_included = emails_included + ?, last_seen = MAX(COALESCE(last_seen, ?), ?),
\*   first_seen = MIN(COALESCE(first_seen, ?), ?) WHERE key = ?
UpdateStatsRow(row, s, messageDate) ==
  [ row EXCEPT !.emails_to = @ + s.emails_to,
               !.emails_from = @ + s.emails_from,
               !.emails_included = @ + s.emails_included,
               !.last_seen = SqlMax(Coalesce(@, messageDate), messageDate),
               !.first_seen = SqlMin(Coalesce(@, messageDate), messageDate) ]

\* One UPDATE statement per key of stats; a key with no row updates nothing.
UpdateStatsTable(table, stats, messageDate) ==
  [ k \in DOMAIN table |->
      IF k \in DOMAIN stats THEN UpdateStatsRow(table[k], stats[k], messageDate) ELSE table[k] ]

(***************************************************************************)
(* Provider messages.  A GmailMessage carries its headers as a sequence of *)
(* name/value pairs; internalDate is a time value.                         *)
(***************************************************************************)
Header(name, value) == [name |-> name, value |-> value]

Message(id, threadId, internalDate, headers) ==
  [id |-> id, threadId |-> threadId, internalDate |-> internalDate, headers |-> headers]

RECURSIVE findHeader(_, _, _)
findHeader(headers, name, i) ==
  IF i > Len(headers) THEN NULL
  ELSE IF toLowerCase(headers[i].name) = toLowerCase(name) THEN headers[i].value
  ELSE findHeader(headers, name, i + 1)

\* services/gmail.ts getHeader
getHeader(message, name) == findHeader(message.headers, name, 1)

Digits == "0123456789"

IsDigits(str) == \A i \in 0..(Len(str) - 1) : includes(Digits, charAt(str, i))

RECURSIVE parseInt(_)
parseInt(str) ==
  IF Len(str) = 0 THEN 0
  ELSE 10 * parseInt(substring(str, 0, Len(str) - 1)) + indexOf(Digits, charAt(str, Len(str) - 1))

\* new Date(dateStr) for the strings the mailboxes of this model carry: a value
\* of the form YYYY-MM-DDTHH is a valid date, anything else is an Invalid Date
\* (whose toISOString() throws).  <<>> stands for the Invalid Date.
parseDate(dateStr) ==
  IF /\ Len(dateStr) = 13
     /\ IsDigits(substring(dateStr, 0, 4)) /\ charAt(dateStr, 4) = "-"
     /\ IsDigits(substring(dateStr, 5, 7)) /\ charAt(dateStr, 7) = "-"
     /\ IsDigits(substring(dateStr, 8, 10)) /\ charAt(dateStr, 10) = "T"
     /\ IsDigits(substring(dateStr, 11, 13))
     /\ parseInt(substring(dateStr, 5, 7)) \in 1..12
     /\ parseInt(substring(dateStr, 8, 10)) \in 1..31
     /\ parseInt(substring(dateStr, 11, 13)) \in 0..23
  THEN NormalizeDate(parseInt(substring(dateStr, 0, 4)), parseInt(substring(dateStr, 5, 7)),
                     parseInt(substring(dateStr, 8, 10)))
       \o <<parseInt(substring(dateStr, 11, 13))>>
  ELSE <<>>

(***************************************************************************)
(* services/sync.ts : SyncService.processMessage (batched variant).        *)
(***************************************************************************)
\* "Parse date"
MessageDate(message) ==
  LET dateStr == getHeader(message, "Date")
  IN  IF dateStr # NULL /\ parseDate(dateStr) # <<>>
      THEN parseDate(dateStr)
      ELSE toISOString(message.internalDate)

WithRole(parsedList, role) ==
  [ i \in 1..Len(parsedList) |->
      [ email |-> parsedList[i].email, name |-> parsedList[i].name,
        domain |-> parsedList[i].domain, role |-> role ] ]

HeaderEmails(message, name, role) ==
  IF getHeader(message, name) # NULL
  THEN WithRole(parseEmailHeader(getHeader(message, name)), role)
  ELSE <<>>

\* "Parse all email addresses"
AllEmails(message) ==
  HeaderEmails(message, "From", "from") \o HeaderEmails(message, "To", "to")
    \o HeaderEmails(message, "Cc", "cc")

RECURSIVE SelectSeqIdx(_, _, _)
SelectSeqIdx(seq, keep, i) ==
  IF i > Len(seq) THEN <<>>
  ELSE (IF i \in keep THEN <<seq[i]>> ELSE <<>>) \o SelectSeqIdx(seq, keep, i + 1)

\* [...new Set(seq)] : first occurrences, in order
Unique(seq) == SelectSeqIdx(seq, {i \in 1..Len(seq) : \A j \in 1..(i - 1) : seq[j] # seq[i]}, 1)

Range(seq) == {seq[i] : i \in 1..Len(seq)}

\* validEmails.find((e) => e.email === emailAddr)
FirstWithEmail(validEmails, emailAddr) ==
  validEmails[CHOOSE i \in 1..Len(validEmails) :
                /\ validEmails[i].email = emailAddr
                /\ \A j \in 1..(i - 1) : validEmails[j].email # emailAddr]

\* delta of one parsed address
\* a variant that counts a To address whoever sent the message
DeltaToAlways(parsed, fromMe) ==
  [ emails_to |-> IF parsed.role = "to" THEN 1 ELSE 0,
    emails_from |-> IF ~fromMe /\ parsed.role = "from" THEN 1 ELSE 0,
    emails_included |-> IF parsed.role = "cc" THEN 1 ELSE 0 ]

Delta(parsed, fromMe) ==
  [ emails_to |-> IF fromMe /\ parsed.role = "to" THEN 1 ELSE 0,
    emails_from |-> IF ~fromMe /\ parsed.role = "from" THEN 1 ELSE 0,
    emails_included |-> IF parsed.role = "cc" THEN 1 ELSE 0 ]

AddStats(a, b) ==
  [ emails_to |-> a.emails_to + b.emails_to, emails_from |-> a.emails_from + b.emails_from,
    emails_included |-> a.emails_included + b.emails_included ]

\* the loop "for (const parsed of validEmails)" for one of the four Maps:
\* keys[i] is the Map key of validEmails[i]
RECURSIVE Aggregate(_, _, _, _, _)
Aggregate(validEmails, keys, fromMe, i, map) ==
  IF i > Len(validEmails) THEN map
  ELSE LET cur == IF keys[i] \in DOMAIN map THEN map[keys[i]] ELSE ZeroStats
       IN  Aggregate(validEmails, keys, fromMe, i + 1,
                     Put(map, keys[i], AddStats(cur, Delta(validEmails[i], fromMe))))

(***************************************************************************)
(* The environment: accounts, their configured addresses, the messages the *)
(* provider can hold, and the bounds of the model.                         *)
(***************************************************************************)
Accounts == {"work"}

\* env.MY_EMAIL_WORK and env.MY_EMAIL_PERSONAL
MyEmail == [a \in {"work", "personal"} |-> IF a = "work" THEN "Me@Acme.com" ELSE "me@gmail.com"]

\* disturbances in one behaviour: failed calls, crashes, administrative
\* requests and manually triggered full syncs
MaxEvents == 1

MaxDays == 2

PageSize == 2

HistoryPageSize == 1

Catalog ==
  [ m1 |-> Message("m1", "t1", 10,
                   << Header("From", "\"Jane Roe\" <jane@beta.io>"),
                      Header("To", "me@acme.com"),
                      Header("Date", "2000-01-01T10") >>),
    m2 |-> Message("m2", "t2", 12,
                   << Header("from", "Me@Acme.com"),
                      Header("to", "jane@beta.io, bob@beta.io"),
                      Header("cc", "Carol <carol@gamma.com>"),
                      Header("date", "2000-01-01T12") >>),
    m3 |-> Message("m3", "t3", 14,
                   << Header("From", "noreply@mail.promo.biz"),
                      Header("To", "me@acme.com, friend@spam.io"),
                      Header("Date", "2000-01-01T14") >>),
    m4 |-> Message("m4", "t1", 33,
                   << Header("From", "\"Bob B\" <bob@beta.io>"),
                      Header("To", "me@acme.com"),
                      Header("Cc", "support@beta.io, Jane <jane@beta.io>"),
                      Header("Date", "Tuesday-ish") >>),
    m5 |-> Message("m5", "t5", 44,
                   << Header("From", "jane@beta.io"),
                      Header("To", "me@acme.com"),
                      Header("Date", "1999-12-31T08") >>),
    m6 |-> Message("m6", "t2", 50,
                   << Header("From", "\"J Roe\" <jane@beta.io>"),
                      Header("To", "me@acme.com"),
                      Header("Date", "2000-01-03T02") >>) ]

MessageIds == DOMAIN Catalog

\* the messages in the mailbox when the model starts, in arrival order
InitialLog == <<"m1", "m2", "m3", "m4">>

\* domains an administrator adds to or removes from the blacklist
AdminDomains == {"beta.io", "spam.io"}

InitialBlacklist ==
  [ d \in {"spam.io", "gmail.com"} |->
      IF d = "spam.io" THEN [category |-> "manual", source |-> NULL]
      ELSE [category |-> "personal", source |-> "seed"] ]

\* provider failures: HTTP status and response text
ProviderErrors ==
  { [status |-> "404", body |-> "Not Found"],
    [status |-> "500", body |-> "Backend Error"],
    [status |-> "403", body |-> "Quota exceeded for consumer project_number:7140455"] }

\* GmailService.request: the message of the Error it throws
ErrorMessage(e) == "Gmail API error: " \o e.status \o " - " \o e.body

(***************************************************************************)
(* Values computed once: the parsed headers and the date of each message   *)
(* of the catalog, and the string functions on the strings the program     *)
(* handles.  Memo(table, key, value) is value, read from the table when    *)
(* the table holds the key.                                                *)
(***************************************************************************)
Bind(value, F(_)) == F(value)

Memo(table, key, value) == IF key \in DOMAIN table THEN table[key] ELSE value

ParsedCatalog == [id \in MessageIds |-> AllEmails(Catalog[id])]

DateCatalog == [id \in MessageIds |-> MessageDate(Catalog[id])]

AddressesOf(parsed) == UNION {{parsed[id][i].email : i \in 1..Len(parsed[id])} : id \in DOMAIN parsed}

CatalogAddresses == AddressesOf(ParsedCatalog)

DomainTable == [e \in CatalogAddresses |-> extractDomain(e)]

TransactionalTable == [e \in DOMAIN DomainTable |-> isTransactional(e)]

LowerCaseTable ==
  [ str \in {MyEmail[a] : a \in Accounts} \cup AdminDomains \cup DOMAIN InitialBlacklist
              \cup {"beta.io", "gamma.com", "acme.com", "mail.promo.biz", "me@gmail.com", "Beta.IO"} |->
      toLowerCase(str) ]

\* String.prototype.toLowerCase
lower(str) == Memo(LowerCaseTable, str, toLowerCase(str))

\* extractDomain
domainOf(email) == Memo(DomainTable, email, extractDomain(email))

\* BlacklistService.isTransactional
transactional(email) == Memo(TransactionalTable, email, isTransactional(email))

\* the parsed From, To and Cc headers of a message
allEmailsOf(message) == Memo(ParsedCatalog, message.id, AllEmails(message))

\* the date of a message
messageDateOf(message) == Memo(DateCatalog, message.id, MessageDate(message))

(***************************************************************************)
(* services/blacklist.ts : the decision functions of BlacklistService.     *)
(* domainCache is null (<<>>) or <<set of domains>>; blacklist is the      *)
(* persisted table, a function from its domains to their category.         *)
(***************************************************************************)
isDomainBlacklistedLower(domainCache, blacklist, domainLower) ==
  IF domainCache # <<>>
  THEN domainLower \in domainCache[1]
  ELSE domainLower \in DOMAIN blacklist

\* BlacklistService.isDomainBlacklisted
isDomainBlacklisted(domainCache, blacklist, domain) ==
  isDomainBlacklistedLower(domainCache, blacklist, lower(domain))

isBlacklistedDomain(domainCache, blacklist, domain) ==
  IF domain = NULL THEN FALSE ELSE isDomainBlacklisted(domainCache, blacklist, domain)

\* a variant that lets only the domains stored as manual exclude
isBlacklistedManualOnly(domainCache, blacklist, email) ==
  IF transactional(email) THEN TRUE
  ELSE /\ domainOf(email) \in DOMAIN blacklist
       /\ blacklist[domainOf(email)].category = "manual"

\* BlacklistService.isBlacklisted
isBlacklisted(domainCache, blacklist, email) ==
  IF transactional(email) THEN TRUE
  ELSE isBlacklistedDomain(domainCache, blacklist, domainOf(email))

(***************************************************************************)
(* services/sync.ts : SyncService.processMessage (batched variant), from   *)
(* the filter to the two batches.                                          *)
(***************************************************************************)
\* "Determine if this is sent or received"
FromMe(allEmails, myEmailLower) ==
  \E i \in 1..Len(allEmails) :
     allEmails[i].role = "from" /\ allEmails[i].email = myEmailLower

\* a variant of the filter that leaves the blacklist out
ValidEmailsSelfOnly(allEmails, myEmailLower, domainCache, blacklist) ==
  SelectSeqIdx(allEmails, { i \in 1..Len(allEmails) : allEmails[i].email # myEmailLower }, 1)

\* "Filter out self and blacklisted emails"
ValidEmails(allEmails, myEmailLower, domainCache, blacklist) ==
  SelectSeqIdx(allEmails,
               { i \in 1..Len(allEmails) :
                   /\ allEmails[i].email # myEmailLower
                   /\ ~isBlacklisted(domainCache, blacklist, allEmails[i].email) },
               1)

\* SELECT domain, company_id FROM domains WHERE domain IN (...)
ExistingDomains(db, uniqueDomains) ==
  [ d \in Range(uniqueDomains) \cap DOMAIN db.domains |-> db.domains[d].company_id ]

\* SELECT ... FROM emails e JOIN contacts c ON e.contact_id = c.id WHERE e.email IN (...)
ExistingEmails(db, uniqueEmailAddresses) ==
  [ e \in { a \in Range(uniqueEmailAddresses) \cap DOMAIN db.emails :
              db.emails[a].contact_id \in DOMAIN db.contacts } |->
      [ contactId |-> db.emails[e].contact_id,
        contactName |-> db.contacts[db.emails[e].contact_id].name,
        companyId |-> db.contacts[db.emails[e].contact_id].company_id ] ]

\* the members of unique that the lookup did not find, in order
NotFound(unique, existing) ==
  SelectSeqIdx(unique, {i \in 1..Len(unique) : unique[i] \notin DOMAIN existing}, 1)

\* "Create companies + domains for new domains"; generateId() returns the ids
\* idBase + 1, idBase + 2, ... in call order
NewCompanies(newDomains, idBase) ==
  [ k \in 1..Len(newDomains) |-> [id |-> idBase + k, domain |-> newDomains[k]] ]

DomainToCompanyId(uniqueDomains, existingDomains, newCompanies) ==
  [ d \in Range(uniqueDomains) |->
      IF d \in DOMAIN existingDomains THEN existingDomains[d]
      ELSE newCompanies[CHOOSE k \in 1..Len(newCompanies) : newCompanies[k].domain = d].id ]

\* "Create contacts + emails for new emails"
NewContacts(validEmails, newEmails, domainToCompanyId, idBase) ==
  [ k \in 1..Len(newEmails) |->
      [ id |-> idBase + k,
        companyId |-> domainToCompanyId[FirstWithEmail(validEmails, newEmails[k]).domain],
        name |-> FirstWithEmail(validEmails, newEmails[k]).name,
        email |-> newEmails[k] ] ]

EmailToContact(uniqueEmailAddresses, existingEmails, newContacts) ==
  [ e \in Range(uniqueEmailAddresses) |->
      IF e \in DOMAIN existingEmails THEN existingEmails[e]
      ELSE Bind(newContacts[CHOOSE k \in 1..Len(newContacts) : newContacts[k].email = e],
                LAMBDA c : [contactId |-> c.id, contactName |-> c.name, companyId |-> c.companyId]) ]

\* PHASE 1 to PHASE 3 up to the insert batch: the filter, the lookups and the
\* staged rows of one message
Plan(db, domainCache, message, myEmail, idBase) ==
  Bind(allEmailsOf(message), LAMBDA allEmails :
  Bind(lower(myEmail), LAMBDA myEmailLower :
  Bind(ValidEmails(allEmails, myEmailLower, domainCache, db.blacklist), LAMBDA validEmails :
  Bind(Unique([i \in 1..Len(validEmails) |-> validEmails[i].domain]), LAMBDA uniqueDomains :
  Bind(Unique([i \in 1..Len(validEmails) |-> validEmails[i].email]), LAMBDA uniqueEmailAddresses :
  Bind(ExistingDomains(db, uniqueDomains), LAMBDA existingDomains :
  Bind(ExistingEmails(db, uniqueEmailAddresses), LAMBDA existingEmails :
  Bind(NewCompanies(NotFound(uniqueDomains, existingDomains), idBase), LAMBDA newCompanies :
  Bind(DomainToCompanyId(uniqueDomains, existingDomains, newCompanies), LAMBDA domainToCompanyId :
  Bind(NewContacts(validEmails, NotFound(uniqueEmailAddresses, existingEmails), domainToCompanyId,
                   idBase + Len(newCompanies)), LAMBDA newContacts :
    [ messageDate |-> messageDateOf(message),
      fromMe |-> FromMe(allEmails, myEmailLower),
      validEmails |-> validEmails,
      newCompanies |-> newCompanies,
      newContacts |-> newContacts,
      domainToCompanyId |-> domainToCompanyId,
      emailToContact |-> EmailToContact(uniqueEmailAddresses, existingEmails, newContacts) ]))))))))))

\* The rows of the insert batch, in statement order, applied to the tables.
RECURSIVE InsertCompanies(_, _, _)
InsertCompanies(db, newCompanies, k) ==
  IF k > Len(newCompanies) THEN db
  ELSE InsertCompanies(
         [ db EXCEPT !.companies = Put(@, newCompanies[k].id, NewCompanyRow(newCompanies[k].domain)),
                     !.domains = Put(@, newCompanies[k].domain, NewDomainRow(newCompanies[k].id)) ],
         newCompanies, k + 1)

RECURSIVE InsertContacts(_, _, _)
InsertContacts(db, newContacts, k) ==
  IF k > Len(newContacts) THEN db
  ELSE InsertContacts(
         [ db EXCEPT !.contacts = Put(@, newContacts[k].id,
                                      NewContactRow(newContacts[k].companyId, newContacts[k].name)),
                     !.emails = Put(@, newContacts[k].email,
                                    NewEmailRow(newContacts[k].id, domainOf(newContacts[k].email),
                                                newContacts[k].name)) ],
         newContacts, k + 1)

\* a contact or email row of the batch violates a PRIMARY KEY or FOREIGN KEY
\* constraint, given the tables as the company statements leave them
ContactConflicts(db, withCompanies, newContacts) ==
  \E k \in 1..Len(newContacts) :
     \/ newContacts[k].id \in DOMAIN db.contacts
     \/ newContacts[k].email \in DOMAIN db.emails
     \/ newContacts[k].companyId \notin DOMAIN withCompanies.companies
     \/ domainOf(newContacts[k].email) \notin DOMAIN withCompanies.domains

\* A statement of the insert batch violates a PRIMARY KEY or FOREIGN KEY
\* constraint of the schema; the whole batch is then rolled back.
InsertBatchConflicts(db, plan) ==
  \/ \E k \in 1..Len(plan.newCompanies) :
        \/ plan.newCompanies[k].id \in DOMAIN db.companies
        \/ plan.newCompanies[k].domain \in DOMAIN db.domains
  \/ ContactConflicts(db, InsertCompanies(db, plan.newCompanies, 1), plan.newContacts)

\* "Execute all inserts in a single batch"
InsertBatch(db, plan) ==
  InsertContacts(InsertCompanies(db, plan.newCompanies, 1), plan.newContacts, 1)

\* "Track contact name updates": validEmails[i] pushes one
NameUpdate(plan, i) ==
  /\ plan.validEmails[i].name # NULL
  /\ plan.emailToContact[plan.validEmails[i].email].contactName = NULL

ContactIdAt(plan, i) == plan.emailToContact[plan.validEmails[i].email].contactId

\* a variant without "AND name IS NULL"
RECURSIVE ApplyNameUpdatesUnguarded(_, _, _)
ApplyNameUpdatesUnguarded(contacts, plan, i) ==
  IF i > Len(plan.validEmails) THEN contacts
  ELSE IF NameUpdate(plan, i) /\ ContactIdAt(plan, i) \in DOMAIN contacts
       THEN ApplyNameUpdatesUnguarded([contacts EXCEPT ![ContactIdAt(plan, i)].name = plan.validEmails[i].name],
                                      plan, i + 1)
       ELSE ApplyNameUpdatesUnguarded(contacts, plan, i + 1)

\* UPDATE contacts SET name = ? WHERE id = ? AND name IS NULL, in push order
RECURSIVE ApplyNameUpdates(_, _, _)
ApplyNameUpdates(contacts, plan, i) ==
  IF i > Len(plan.validEmails) THEN contacts
  ELSE IF /\ NameUpdate(plan, i)
          /\ ContactIdAt(plan, i) \in DOMAIN contacts
          /\ contacts[ContactIdAt(plan, i)].name = NULL
       THEN ApplyNameUpdates([contacts EXCEPT ![ContactIdAt(plan, i)].name = plan.validEmails[i].name],
                             plan, i + 1)
       ELSE ApplyNameUpdates(contacts, plan, i + 1)

\* the Map key of validEmails[i] in companyStats, domainStats, contactStats, emailStats
KeySeq(plan, kind) ==
  [ i \in 1..Len(plan.validEmails) |->
      CASE kind = "company" -> plan.domainToCompanyId[plan.validEmails[i].domain]
        [] kind = "domain"  -> plan.validEmails[i].domain
        [] kind = "contact" -> ContactIdAt(plan, i)
        [] kind = "email"   -> plan.validEmails[i].email ]

\* PHASE 4 "Aggregate stats per entity"
StatsOf(plan, kind) == Aggregate(plan.validEmails, KeySeq(plan, kind), plan.fromMe, 1, EmptyTable)

\* a variant of companyStats that overwrites the Map entry instead of adding to it
companyStatsLastWins(plan) ==
  LET keys == KeySeq(plan, "company")
  IN  [ k \in Range(keys) |->
          Delta(plan.validEmails[CHOOSE i \in 1..Len(keys) :
                                   keys[i] = k /\ \A j \in 1..Len(keys) : keys[j] = k => j <= i],
                plan.fromMe) ]

companyStats(plan) == StatsOf(plan, "company")

domainStats(plan) == StatsOf(plan, "domain")

contactStats(plan) == StatsOf(plan, "contact")

emailStats(plan) == StatsOf(plan, "email")

\* "Execute all updates in a single batch"
UpdateBatch(db, plan) ==
  [ db EXCEPT
      !.companies = UpdateStatsTable(@, companyStats(plan), plan.messageDate),
      !.domains   = UpdateStatsTable(@, domainStats(plan), plan.messageDate),
      !.contacts  = ApplyNameUpdates(UpdateStatsTable(@, contactStats(plan), plan.messageDate), plan, 1),
      !.emails    = UpdateStatsTable(@, emailStats(plan), plan.messageDate) ]

Outcome(db, threw, ids, companiesCreated, contactsCreated) ==
  [ db |-> db, threw |-> threw, ids |-> ids, companiesCreated |-> companiesCreated,
    contactsCreated |-> contactsCreated ]

\* the two batches of processMessage, given the staged rows; inserted is the
\* store after the insert batch
Commit(db, plan, inserted, fault) ==
  IF Len(plan.validEmails) = 0 THEN Outcome(db, FALSE, 0, 0, 0)
  ELSE IF fault = "lookup" THEN Outcome(db, TRUE, 0, 0, 0)
  ELSE IF /\ Len(plan.newCompanies) + Len(plan.newContacts) > 0
          /\ (fault = "insert" \/ InsertBatchConflicts(db, plan))
  THEN Outcome(db, TRUE, 0, 0, 0)
  ELSE IF fault = "update"
  THEN Outcome(inserted, TRUE, Len(plan.newCompanies) + Len(plan.newContacts), 0, 0)
  ELSE Outcome(UpdateBatch(inserted, plan), FALSE, Len(plan.newCompanies) + Len(plan.newContacts),
               Len(plan.newCompanies), Len(plan.newContacts))

\* SyncService.processMessage.  fault names the store call that fails
\* ("none", "lookup", "insert", "update"); the result is the store afterwards,
\* whether the call threw, and the number of generated ids that were stored.
processMessage(db, domainCache, message, myEmail, idBase, fault) ==
  Bind(Plan(db, domainCache, message, myEmail, idBase),
       LAMBDA plan : Commit(db, plan, InsertBatch(db, plan), fault))

(***************************************************************************)
(* The mail provider (Gmail), as GmailService exposes it.  A mailbox is    *)
(* the sequence of its message ids in arrival order; the history id of the *)
(* k-th arrival is k.                                                      *)
(***************************************************************************)
RECURSIVE NewestFirst(_)
NewestFirst(ids) ==
  IF ids = {} THEN <<>>
  ELSE LET top == CHOOSE m \in ids :
                    \A n \in ids : Catalog[n].internalDate <= Catalog[m].internalDate
       IN  <<top>> \o NewestFirst(ids \ {top})

Min(a, b) == IF a < b THEN a ELSE b

\* q = <<>> (no query) or <<after, before>>: after:Y/M/D before:Y/M/D
Matches(m, q) ==
  \/ q = <<>>
  \/ /\ ~LexLess(isoDay(Catalog[m].internalDate), q[1])
     /\ LexLess(isoDay(Catalog[m].internalDate), q[2])

\* GmailService.listMessages; pageToken is <<>> or <<offset>>
listMessages(log, q, pageToken, maxResults) ==
  LET all    == NewestFirst({m \in Range(log) : Matches(m, q)})
      offset == IF pageToken = <<>> THEN 0 ELSE pageToken[1]
  IN  [ messages |-> SubSeq(all, offset + 1, Min(offset + maxResults, Len(all))),
        nextPageToken |-> IF offset + maxResults < Len(all) THEN <<offset + maxResults>> ELSE <<>> ]

\* GmailService.getHistory: the messagesAdded records after startHistoryId
getHistory(log, startHistoryId, pageToken) ==
  LET all    == SubSeq(log, startHistoryId + 1, Len(log))
      offset == IF pageToken = <<>> THEN 0 ELSE pageToken[1]
  IN  [ messages |-> SubSeq(all, offset + 1, Min(offset + HistoryPageSize, Len(all))),
        historyId |-> Len(log),
        nextPageToken |-> IF offset + HistoryPageSize < Len(all)
                          THEN <<offset + HistoryPageSize>> ELSE <<>> ]

\* GmailService.getProfile().historyId
getProfile(log) == Len(log)

\* GmailService.batchGetMessages: the listed messages whose getMessage call
\* did not reject (a rejected one is logged and left out); failed is the set
\* of ids whose fetch still fails after the retries of request()
batchGetMessages(messageIds, failed) ==
  SelectSeq(messageIds, LAMBDA id : id \notin failed)

(***************************************************************************)
(* SyncState reads and writes (services/sync.ts).                          *)
(***************************************************************************)
NoSyncState ==
  [ last_history_id |-> <<>>, batch_current_date |-> <<>>, batch_page_token |-> <<>>,
    batch_page_number |-> 0 ]

\* getSyncState(); the absent row reads as nulls
getSyncState(db, account) ==
  IF account \in DOMAIN db.sync_state THEN db.sync_state[account] ELSE NoSyncState

\* a variant that writes nothing
updateSyncStateSkipped(db, account, historyId) == db

\* a variant that replaces the row (INSERT OR REPLACE) instead of updating it
updateSyncStateReplacesRow(db, account, historyId) ==
  [db EXCEPT !.sync_state = Put(@, account, [NoSyncState EXCEPT !.last_history_id = <<historyId>>])]

updateSyncState(db, account, historyId) ==
  [ db EXCEPT !.sync_state =
      Put(@, account, [getSyncState(db, account) EXCEPT !.last_history_id = <<historyId>>]) ]

\* a variant that leaves last_history_id as it is
updateSyncStateWithDateNoCursor(db, account, historyId, batchCurrentDate, batchPageToken, batchPageNumber) ==
  [ db EXCEPT !.sync_state =
      Put(@, account,
          [ last_history_id |-> getSyncState(db, account).last_history_id,
            batch_current_date |-> batchCurrentDate,
            batch_page_token |-> batchPageToken, batch_page_number |-> batchPageNumber ]) ]

\* a variant that binds no page token and no page number
updateSyncStateWithDateRestartsDay(db, account, historyId, batchCurrentDate, batchPageToken, batchPageNumber) ==
  [ db EXCEPT !.sync_state =
      Put(@, account,
          [ last_history_id |-> <<historyId>>, batch_current_date |-> batchCurrentDate,
            batch_page_token |-> <<>>, batch_page_number |-> 0 ]) ]

\* a variant whose write is not made
updateSyncStateWithDateNotWritten(db, account, historyId, batchCurrentDate, batchPageToken, batchPageNumber) ==
  db

\* a variant whose upsert also updates the rows of the other accounts
updateSyncStateWithDateEveryRow(db, account, historyId, batchCurrentDate, batchPageToken, batchPageNumber) ==
  [ db EXCEPT !.sync_state =
      [ a \in DOMAIN db.sync_state \cup {account} |->
          [ last_history_id |-> <<historyId>>, batch_current_date |-> batchCurrentDate,
            batch_page_token |-> batchPageToken, batch_page_number |-> batchPageNumber ] ] ]

\* a variant that does not bind batch_page_number
updateSyncStateWithDateNoPage(db, account, historyId, batchCurrentDate, batchPageToken, batchPageNumber) ==
  [ db EXCEPT !.sync_state =
      Put(@, account,
          [ last_history_id |-> <<historyId>>, batch_current_date |-> batchCurrentDate,
            batch_page_token |-> batchPageToken, batch_page_number |-> 0 ]) ]

updateSyncStateWithDate(db, account, historyId, batchCurrentDate, batchPageToken, batchPageNumber) ==
  [ db EXCEPT !.sync_state =
      Put(@, account,
          [ last_history_id |-> <<historyId>>, batch_current_date |-> batchCurrentDate,
            batch_page_token |-> batchPageToken, batch_page_number |-> batchPageNumber ]) ]

\* a variant that never finds the row
isMessageProcessedNever(db, messageId) == FALSE

isMessageProcessed(db, messageId) == messageId \in DOMAIN db.processed_messages

\* INSERT OR IGNORE INTO processed_messages
markMessageProcessed(db, account, messageId) ==
  IF messageId \in DOMAIN db.processed_messages THEN db
  ELSE [db EXCEPT !.processed_messages = Put(@, messageId, [account |-> account])]

\* BlacklistService.loadCache, "Cache miss or invalid - load from DB": the
\* lower-cased domains of the rows
loadFromDb(blacklist) == <<{lower(d) : d \in DOMAIN blacklist}>>

\* BlacklistService.loadCache on an instance with the KV namespace; returns
\* <<domainCache, kv>>.  "If already loaded in this invocation, skip"; the
\* copy in the KV namespace is used when its date is today and its count is
\* the row count of the table, else the rows are read and the three keys put
loadCache(domainCache, kvStore, blacklist, today) ==
  IF domainCache # <<>> THEN <<domainCache, kvStore>>
  ELSE IF kvStore # <<>> /\ kvStore[1].date = today
             /\ kvStore[1].count = Cardinality(DOMAIN blacklist)
       THEN << <<kvStore[1].domains>>, kvStore >>
       ELSE << loadFromDb(blacklist),
               << [ domains |-> loadFromDb(blacklist)[1], count |-> Cardinality(DOMAIN blacklist),
                    date |-> today ] >> >>

(***************************************************************************)
(* The state.                                                              *)
(*   db           the D1 database: one function per table, keyed by the    *)
(*                table's primary key                                      *)
(*   gmail        per account, the mailbox (message ids in arrival order)  *)
(*   now          Date.now(), in hours                                     *)
(*   idgen        number of ids generateId() has handed out                *)
(*   inv          per runner (one SyncService instance in one Worker       *)
(*                invocation): the locals of the sync method it is in      *)
(*   domainCache  per runner, BlacklistService.domainCache (<<>> = null)   *)
(*   kv           the KV namespace: <<>> while the blacklist keys are not  *)
(*                set, else <<[domains, count, date]>>                     *)
(*   driver       per account, the locals of runAccountSync (index.ts);    *)
(*                empty where the sync methods are called directly         *)
(*   ret          per runner, how its last sync call ended                 *)
(*   delivered    the message ids a batchSync loop iteration has handled   *)
(*   redelivered  those a batchSync loop iteration has handled again       *)
(*   lastWindow   per account, the day window <<after, before>> of the     *)
(*                last listing call of batchSync (<<>> = none yet)         *)
(*   events       number of disturbances so far (bounds the exploration)   *)
(***************************************************************************)
VARIABLES db, gmail, now, idgen, inv, domainCache, kv, driver, ret, events, delivered, redelivered,
          lastWindow

vars ==
  <<db, gmail, now, idgen, inv, domainCache, kv, driver, ret, events, delivered, redelivered, lastWindow>>

\* the variables that record what has happened
hist == <<delivered, redelivered, lastWindow>>

\* a variant whose hasMore starts as true
ZeroResultHasMore ==
  [ messagesProcessed |-> 0, contactsCreated |-> 0, companiesCreated |-> 0, errors |-> <<>>,
    hasMore |-> TRUE ]

ZeroResult ==
  [ messagesProcessed |-> 0, contactsCreated |-> 0, companiesCreated |-> 0, errors |-> <<>>,
    hasMore |-> FALSE ]

Idle(account) ==
  [ pc |-> "idle", account |-> account, profile |-> 0, currentDate |-> <<>>, today |-> <<>>,
    currentPageNumber |-> 0, messages |-> <<>>, idx |-> 1, pageToken |-> <<>>,
    nextPageToken |-> <<>>, startHistoryId |-> 0, latestHistoryId |-> 0, result |-> ZeroResult ]

\* how a sync call stands: outcome is none, running, returned, threw or crashed;
\* via is the method called; caught is the message of the provider error its
\* outer catch has handled, error the message of the error it threw
NoReturn == [outcome |-> "none", via |-> "none", caught |-> NULL, error |-> NULL, result |-> ZeroResult]

Returned(via, caught, result) ==
  [outcome |-> "returned", via |-> via, caught |-> caught, error |-> NULL, result |-> result]

\* a variant in which the error is swallowed and the call returns
ThrewSwallowed(via, error) ==
  [outcome |-> "returned", via |-> via, caught |-> error, error |-> NULL, result |-> ZeroResult]

Threw(via, error) ==
  [outcome |-> "threw", via |-> via, caught |-> error, error |-> error, result |-> ZeroResult]

Running(via, caught) ==
  [outcome |-> "running", via |-> via, caught |-> caught, error |-> NULL, result |-> ZeroResult]

Runners == DOMAIN inv

\* no sync method is running
Quiet == \A r \in Runners : inv[r].pc = "idle"

\* the store calls of processMessage that may fail in the current step
Faults == IF events < MaxEvents THEN {"none", "lookup", "insert", "update"} ELSE {"none"}

\* the same, and the INSERT of markMessageProcessed
FaultsOrMark == IF events < MaxEvents THEN Faults \cup {"mark"} ELSE Faults

\* the sets of listed messages whose fetch may fail in the current step
FetchFailures(messageIds) ==
  IF events < MaxEvents THEN SUBSET Range(messageIds) ELSE {{}}

\* the message of a failed D1 statement
StoreError == "D1_ERROR"

\* result after one loop iteration around processMessage (try / catch)
Tally(result, messageId, p) ==
  IF p.threw
  THEN [result EXCEPT !.errors = Append(@, messageId)]
  ELSE [result EXCEPT !.messagesProcessed = @ + 1,
                      !.contactsCreated = @ + p.contactsCreated,
                      !.companiesCreated = @ + p.companiesCreated]

\* the end of a loop iteration whose processMessage call gave p (try / catch
\* around it); a fault is injected only where the call it names is made
Processed(r, id, fault, p) ==
  /\ fault = "none" \/ p.threw
  /\ db' = p.db
  /\ idgen' = idgen + p.ids
  /\ events' = IF fault = "none" THEN events ELSE events + 1
  /\ inv' = [inv EXCEPT ![r].idx = @ + 1, ![r].result = Tally(@, id, p)]

\* the same, with markMessageProcessed after a processMessage call that returned;
\* fault "mark" is the failure of that INSERT, inside the same try block: the
\* counts of the message are tallied already, and the catch records its id
ProcessedThenMarked(r, id, fault, p) ==
  /\ fault \in {"none", "mark"} \/ p.threw
  /\ db' = IF p.threw \/ fault = "mark" THEN p.db ELSE markMessageProcessed(p.db, inv[r].account, id)
  /\ idgen' = idgen + p.ids
  /\ events' = IF fault = "none" THEN events ELSE events + 1
  /\ inv' = [inv EXCEPT ![r].idx = @ + 1,
                        ![r].result = IF fault = "mark" /\ ~p.threw
                                      THEN [Tally(@, id, p) EXCEPT !.errors = Append(@, id)]
                                      ELSE Tally(@, id, p)]

InitDb == [EmptyDb EXCEPT !.blacklist = InitialBlacklist]

Init ==
  /\ db = InitDb
  /\ gmail = [a \in Accounts |-> InitialLog]
  /\ now = 47
  /\ idgen = 0
  /\ inv = [r \in {"cron"} |-> Idle("work")]
  /\ domainCache = [r \in {"cron"} |-> <<>>]
  /\ kv = <<>>
  /\ driver = <<>>
  /\ ret = [r \in {"cron", "api"} |-> NoReturn]
  /\ delivered = {}
  /\ redelivered = {}
  /\ lastWindow = [a \in Accounts |-> <<>>]
  /\ events = 0

(***************************************************************************)
(* SyncService.batchSync                                                   *)
(***************************************************************************)
\* from the entry to the end of batchGetMessages, or to an early return
BatchSyncStart(r) ==
  /\ inv[r].pc = "idle"
  /\ LET a == inv[r].account
         profile == getProfile(gmail[a])
         syncState == getSyncState(db, a)
         currentDate == IF syncState.batch_current_date = <<>> THEN <<2000, 1, 1>>
                        ELSE syncState.batch_current_date
         today == isoDay(now)
         pageToken == syncState.batch_page_token
         nextDate == addDays(currentDate, 1)
         listResponse == listMessages(gmail[a], <<currentDate, nextDate>>, pageToken, PageSize)
     IN  /\ domainCache' = [domainCache EXCEPT ![r] =
                             loadCache(@, kv, db.blacklist, isoDay(now))[1]]
         /\ kv' = loadCache(domainCache[r], kv, db.blacklist, isoDay(now))[2]
         /\ lastWindow' = IF LexLess(today, currentDate) THEN lastWindow
                          ELSE [lastWindow EXCEPT ![a] = <<currentDate, nextDate>>]
         /\ IF LexLess(today, currentDate)
            THEN /\ ret' = [ret EXCEPT ![r] = Returned("batchSync", NULL, ZeroResult)]
                 /\ UNCHANGED <<db, inv>>
            ELSE IF listResponse.messages = <<>>
            THEN /\ db' = updateSyncStateWithDate(db, a, profile, nextDate, <<>>, 0)
                 /\ ret' = [ret EXCEPT ![r] =
                              Returned("batchSync", NULL,
                                       [ZeroResult EXCEPT !.hasMore = ~LexLess(today, nextDate)])]
                 /\ UNCHANGED inv
            ELSE /\ \E failed \in FetchFailures(listResponse.messages) :
                      /\ inv' = [inv EXCEPT ![r] =
                                   [ Idle(a) EXCEPT !.pc = "batch", !.profile = profile,
                                                    !.currentDate = currentDate, !.today = today,
                                                    !.currentPageNumber = syncState.batch_page_number,
                                                    !.messages = batchGetMessages(listResponse.messages, failed),
                                                    !.pageToken = pageToken,
                                                    !.nextPageToken = listResponse.nextPageToken ]]
                      /\ events' = IF failed = {} THEN events ELSE events + 1
                 /\ ret' = [ret EXCEPT ![r] = Running("batchSync", NULL)]
                 /\ UNCHANGED db
         /\ (LexLess(today, currentDate) \/ listResponse.messages = <<>>) => events' = events
  /\ UNCHANGED <<driver, gmail, now, idgen, delivered, redelivered>>

\* one iteration of "for (const message of messages)"
BatchSyncMessage(r) ==
  /\ inv[r].pc = "batch"
  /\ inv[r].idx <= Len(inv[r].messages)
  /\ LET a == inv[r].account
         id == inv[r].messages[inv[r].idx]
     IN  /\ delivered' = delivered \cup {id}
         /\ redelivered' = IF id \in delivered THEN redelivered \cup {id} ELSE redelivered
         /\ IF isMessageProcessed(db, id)
            THEN /\ inv' = [inv EXCEPT ![r].idx = @ + 1]
                 /\ UNCHANGED <<db, idgen, events>>
            ELSE \E fault \in Faults :
                   Processed(r, id, fault,
                             processMessage(markMessageProcessed(db, a, id), domainCache[r],
                                            Catalog[id], MyEmail[a], idgen, fault))
  /\ UNCHANGED <<driver, gmail, now, domainCache, kv, ret, lastWindow>>

\* a store call of batchSync itself rejects: the SELECT of isMessageProcessed
\* or the INSERT of markMessageProcessed of a loop iteration (both stand
\* before the try block), or the SyncState write after the loop.  batchSync
\* rejects with the error.
BatchSyncStoreFails(r) ==
  /\ inv[r].pc = "batch"
  /\ events < MaxEvents
  /\ events' = events + 1
  /\ ret' = [ret EXCEPT ![r] = Threw("batchSync", StoreError)]
  /\ inv' = [inv EXCEPT ![r] = Idle(inv[r].account)]
  /\ UNCHANGED <<driver, db, gmail, now, idgen, domainCache, kv, hist>>

\* after the loop: the SyncState write and the return
BatchSyncPageDone(r) ==
  /\ inv[r].pc = "batch"
  /\ inv[r].idx > Len(inv[r].messages)
  /\ LET a == inv[r].account
         nextDate == addDays(inv[r].currentDate, 1)
         hasNext == inv[r].nextPageToken # <<>>
     IN  /\ db' = IF hasNext
                  THEN updateSyncStateWithDate(db, a, inv[r].profile, inv[r].currentDate,
                                               inv[r].nextPageToken, inv[r].currentPageNumber + 1)
                  ELSE updateSyncStateWithDate(db, a, inv[r].profile, nextDate, <<>>, 0)
         /\ ret' = [ret EXCEPT ![r] =
                      Returned("batchSync", NULL,
                               [inv[r].result EXCEPT !.hasMore = ~LexLess(inv[r].today, nextDate) \/ hasNext])]
         /\ inv' = [inv EXCEPT ![r] = Idle(a)]
  /\ UNCHANGED <<driver, gmail, now, idgen, domainCache, kv, hist, events>>

(***************************************************************************)
(* SyncService.fullSync                                                    *)
(***************************************************************************)
\* listMessages({ pageToken, maxResults: 100 })
FULL_SYNC_MAX_RESULTS == 100

\* fullSync from its entry to the end of the first batchGetMessages, or to
\* its return when the first listing is empty; via names the caller.
FullSyncBegin(r, via, caught) ==
  LET a == inv[r].account
      profile == getProfile(gmail[a])
      listResponse == listMessages(gmail[a], <<>>, <<>>, FULL_SYNC_MAX_RESULTS)
  IN  /\ domainCache' = [domainCache EXCEPT ![r] =
                          loadCache(@, kv, db.blacklist, isoDay(now))[1]]
      /\ kv' = loadCache(domainCache[r], kv, db.blacklist, isoDay(now))[2]
      /\ IF listResponse.messages = <<>>
         THEN /\ db' = updateSyncState(db, a, profile)
              /\ inv' = [inv EXCEPT ![r] = Idle(a)]
              /\ ret' = [ret EXCEPT ![r] = Returned(via, caught, ZeroResult)]
         ELSE /\ inv' = [inv EXCEPT ![r] =
                           [ Idle(a) EXCEPT !.pc = "full", !.profile = profile,
                                            !.messages = listResponse.messages,
                                            !.nextPageToken = listResponse.nextPageToken ]]
              /\ ret' = [ret EXCEPT ![r] = Running(via, caught)]
              /\ UNCHANGED db

\* POST /api/sync with full = true
FullSyncStart(r) ==
  /\ inv[r].pc = "idle"
  /\ events < MaxEvents
  /\ events' = events + 1
  /\ FullSyncBegin(r, "fullSync", NULL)
  /\ UNCHANGED <<driver, gmail, now, idgen, hist>>

\* one iteration of "for (const message of messages)"
FullSyncMessage(r) ==
  /\ inv[r].pc = "full"
  /\ inv[r].idx <= Len(inv[r].messages)
  /\ \E fault \in Faults :
       Processed(r, inv[r].messages[inv[r].idx], fault,
                 processMessage(db, domainCache[r], Catalog[inv[r].messages[inv[r].idx]],
                                MyEmail[inv[r].account], idgen, fault))
  /\ UNCHANGED <<driver, gmail, now, domainCache, kv, ret, hist>>

\* the end of a page: the next listing, or the SyncState write and the return
FullSyncPageDone(r) ==
  /\ inv[r].pc = "full"
  /\ inv[r].idx > Len(inv[r].messages)
  /\ LET a == inv[r].account
         listResponse == listMessages(gmail[a], <<>>, inv[r].nextPageToken, FULL_SYNC_MAX_RESULTS)
     IN  IF inv[r].nextPageToken # <<>> /\ listResponse.messages # <<>>
         THEN /\ inv' = [inv EXCEPT ![r].messages = listResponse.messages,
                                    ![r].idx = 1,
                                    ![r].pageToken = inv[r].nextPageToken,
                                    ![r].nextPageToken = listResponse.nextPageToken]
              /\ UNCHANGED <<db, ret>>
         ELSE /\ db' = updateSyncState(db, a, inv[r].profile)
              /\ ret' = [ret EXCEPT ![r] = Returned(ret[r].via, ret[r].caught, inv[r].result)]
              /\ inv' = [inv EXCEPT ![r] = Idle(a)]
  /\ UNCHANGED <<driver, gmail, now, idgen, domainCache, kv, hist, events>>

(***************************************************************************)
(* SyncService.incrementalSync                                             *)
(***************************************************************************)
\* the entry: no last_history_id -> return this.fullSync()
IncrementalSyncStart(r) ==
  /\ inv[r].pc = "idle"
  /\ LET a == inv[r].account
         syncState == getSyncState(db, a)
     IN  IF syncState.last_history_id = <<>>
         THEN FullSyncBegin(r, "incrementalSync", NULL)
         ELSE /\ domainCache' = [domainCache EXCEPT ![r] =
                                  loadCache(@, kv, db.blacklist, isoDay(now))[1]]
              /\ kv' = loadCache(domainCache[r], kv, db.blacklist, isoDay(now))[2]
              /\ inv' = [inv EXCEPT ![r] =
                           [ Idle(a) EXCEPT !.pc = "history",
                                            !.startHistoryId = syncState.last_history_id[1],
                                            !.latestHistoryId = syncState.last_history_id[1] ]]
              /\ ret' = [ret EXCEPT ![r] = Running("incrementalSync", NULL)]
              /\ UNCHANGED db
  /\ UNCHANGED <<driver, gmail, now, idgen, hist, events>>

\* one getHistory call: a page of history, or an error caught by the outer catch
IncrementalSyncHistory(r) ==
  /\ inv[r].pc = "history"
  /\ LET a == inv[r].account
         response == getHistory(gmail[a], inv[r].startHistoryId, inv[r].pageToken)
     IN  \/ /\ inv' = [inv EXCEPT ![r].pc = "incr",
                                  ![r].messages = response.messages,
                                  ![r].idx = 1,
                                  ![r].latestHistoryId = response.historyId,
                                  ![r].nextPageToken = response.nextPageToken]
            /\ UNCHANGED <<db, domainCache, kv, ret, events>>
         \/ /\ events < MaxEvents
            /\ events' = events + 1
            /\ \E e \in ProviderErrors :
                 IF includes(ErrorMessage(e), "404")
                 THEN FullSyncBegin(r, "incrementalSync", ErrorMessage(e))
                 ELSE /\ ret' = [ret EXCEPT ![r] = Threw("incrementalSync", ErrorMessage(e))]
                      /\ inv' = [inv EXCEPT ![r] = Idle(a)]
                      /\ UNCHANGED <<db, domainCache, kv>>
  /\ UNCHANGED <<driver, gmail, now, idgen, hist>>

\* one iteration over history.messagesAdded (inner try / catch)
IncrementalSyncMessage(r) ==
  /\ inv[r].pc = "incr"
  /\ inv[r].idx <= Len(inv[r].messages)
  /\ LET a == inv[r].account
         id == inv[r].messages[inv[r].idx]
     IN  IF isMessageProcessed(db, id)
         THEN /\ inv' = [inv EXCEPT ![r].idx = @ + 1]
              /\ UNCHANGED <<db, idgen, events>>
         ELSE \E fault \in FaultsOrMark :
                ProcessedThenMarked(r, id, fault,
                                    processMessage(db, domainCache[r], Catalog[id], MyEmail[a],
                                                   idgen, fault))
  /\ UNCHANGED <<driver, gmail, now, domainCache, kv, ret, hist>>

\* the end of a history page: the next page, or updateSyncState and the return
IncrementalSyncPageDone(r) ==
  /\ inv[r].pc = "incr"
  /\ inv[r].idx > Len(inv[r].messages)
  /\ LET a == inv[r].account
     IN  IF inv[r].nextPageToken # <<>>
         THEN /\ inv' = [inv EXCEPT ![r].pc = "history", ![r].pageToken = inv[r].nextPageToken]
              /\ UNCHANGED <<db, ret>>
         ELSE /\ db' = updateSyncState(db, a, inv[r].latestHistoryId)
              /\ ret' = [ret EXCEPT ![r] = Returned("incrementalSync", NULL, inv[r].result)]
              /\ inv' = [inv EXCEPT ![r] = Idle(a)]
  /\ UNCHANGED <<driver, gmail, now, idgen, domainCache, kv, hist, events>>

(***************************************************************************)
(* The environment of a sync invocation.                                   *)
(***************************************************************************)
\* the Worker invocation is killed (CPU or wall-clock limit) while in a sync method
Crash(r) ==
  /\ inv[r].pc # "idle"
  /\ events < MaxEvents
  /\ events' = events + 1
  /\ inv' = [inv EXCEPT ![r] = Idle(inv[r].account)]
  /\ domainCache' = [domainCache EXCEPT ![r] = <<>>]
  /\ ret' = [ret EXCEPT ![r] = [outcome |-> "crashed", via |-> ret[r].via, caught |-> NULL,
                                error |-> NULL, result |-> ZeroResult]]
  /\ UNCHANGED <<driver, db, gmail, now, idgen, hist, kv>>

\* the next Worker invocation constructs a new SyncService (new BlacklistService);
\* taken when the instance it replaces holds a cache that differs from a fresh load
NewInstance(r) ==
  /\ inv[r].pc = "idle"
  /\ domainCache[r] # <<>>
  /\ domainCache[r] # loadFromDb(db.blacklist)
  /\ domainCache' = [domainCache EXCEPT ![r] = <<>>]
  /\ UNCHANGED <<driver, db, gmail, now, idgen, inv, ret, hist, events, kv>>

\* a message arrives in the mailbox: the messages that are not in it yet
\* arrive in the order of their internalDate
Arrive(a) ==
  /\ Quiet
  /\ \E id \in MessageIds \ Range(gmail[a]) :
       /\ Catalog[id].internalDate <= now
       /\ \A other \in MessageIds \ Range(gmail[a]) :
             Catalog[id].internalDate <= Catalog[other].internalDate
       /\ gmail' = [gmail EXCEPT ![a] = Append(@, id)]
  /\ UNCHANGED <<driver, db, now, idgen, inv, domainCache, kv, ret, hist, events>>

\* a day passes
Tick ==
  /\ Quiet
  /\ now \div 24 < MaxDays
  /\ now' = now + 24
  /\ UNCHANGED <<driver, db, gmail, idgen, inv, domainCache, kv, ret, hist, events>>

(***************************************************************************)
(* Administration: routes/api/blacklist and routes/api/companies.  Each    *)
(* request constructs its own BlacklistService, whose cache is not loaded. *)
(***************************************************************************)
\* a variant that stores and caches the domain as it is given
addAsGiven(blacklist, cache, domain, category, source) ==
  << Put(blacklist, domain, [category |-> category, source |-> source]),
     IF cache # <<>> THEN <<cache[1] \cup {domain}>> ELSE cache >>

\* BlacklistService.add on an instance with cache `cache'; returns <<blacklist, cache>>
add(blacklist, cache, domain, category, source) ==
  << Put(blacklist, lower(domain), [category |-> category, source |-> source]),
     IF cache # <<>> THEN <<cache[1] \cup {lower(domain)}>> ELSE cache >>

\* BlacklistService.remove; returns <<blacklist, cache, removed>>
remove(blacklist, cache, domain) ==
  << Drop(blacklist, {lower(domain)}),
     IF cache # <<>> THEN <<cache[1] \ {lower(domain)}>> ELSE cache,
     lower(domain) \in DOMAIN blacklist >>

\* POST /api/blacklist
BlacklistAdd ==
  /\ Quiet
  /\ events < MaxEvents
  /\ events' = events + 1
  /\ \E d \in AdminDomains :
       db' = [db EXCEPT !.blacklist = add(@, <<>>, d, "manual", "api")[1]]
  /\ UNCHANGED <<driver, gmail, now, idgen, inv, domainCache, kv, ret, hist>>

\* DELETE /api/blacklist/:domain
BlacklistRemove ==
  /\ Quiet
  /\ events < MaxEvents
  /\ events' = events + 1
  /\ \E d \in AdminDomains :
       /\ remove(db.blacklist, <<>>, d)[3]
       /\ db' = [db EXCEPT !.blacklist = remove(@, <<>>, d)[1]]
  /\ UNCHANGED <<driver, gmail, now, idgen, inv, domainCache, kv, ret, hist>>

RECURSIVE addAll(_, _)
addAll(blacklist, domains) ==
  IF domains = {} THEN blacklist
  ELSE LET d == CHOOSE x \in domains : TRUE
       IN  addAll(add(blacklist, <<>>, d, "manual", "company-delete")[1], domains \ {d})

\* a variant of the route that skips the blacklist
deleteCompanyNoBlacklist(d, id) ==
  LET domains  == {x \in DOMAIN d.domains : d.domains[x].company_id = id}
      contacts == {c \in DOMAIN d.contacts : d.contacts[c].company_id = id}
  IN  [ d EXCEPT !.emails = Drop(@, {e \in DOMAIN d.emails : d.emails[e].contact_id \in contacts}),
                 !.contacts = Drop(@, contacts),
                 !.domains = Drop(@, domains),
                 !.companies = Drop(@, {id}) ]

\* a variant of the delete batch without its DELETE FROM emails statement
deleteCompanyKeepEmails(d, id) ==
  LET domains  == {x \in DOMAIN d.domains : d.domains[x].company_id = id}
      contacts == {c \in DOMAIN d.contacts : d.contacts[c].company_id = id}
  IN  [ d EXCEPT !.blacklist = addAll(@, domains),
                 !.contacts = Drop(@, contacts),
                 !.domains = Drop(@, domains),
                 !.companies = Drop(@, {id}) ]

\* DELETE /api/companies/:id for a stored company
deleteCompany(d, id) ==
  LET domains  == {x \in DOMAIN d.domains : d.domains[x].company_id = id}
      contacts == {c \in DOMAIN d.contacts : d.contacts[c].company_id = id}
  IN  [ d EXCEPT !.blacklist = addAll(@, domains),
                 !.emails = Drop(@, {e \in DOMAIN d.emails : d.emails[e].contact_id \in contacts}),
                 !.contacts = Drop(@, contacts),
                 !.domains = Drop(@, domains),
                 !.companies = Drop(@, {id}) ]

\* the response of the route: success with blacklistedDomains, or the
\* AppError('Company not found', 'NOT_FOUND', 404)
DeleteResponse(d, id) ==
  IF id \in DOMAIN d.companies
  THEN Returned("deleteCompany", NULL,
                [id |-> id,
                 blacklistedDomains |-> {x \in DOMAIN d.domains : d.domains[x].company_id = id}])
  ELSE [Threw("deleteCompany", "Company not found") EXCEPT
          !.result = [id |-> id, blacklistedDomains |-> {}]]

\* the route called with the id of a stored company or with another id
CompanyDelete ==
  /\ Quiet
  /\ events < MaxEvents
  /\ events' = events + 1
  /\ \E id \in 1..(idgen + 1) :
       /\ db' = IF id \in DOMAIN db.companies THEN deleteCompany(db, id) ELSE db
       /\ ret' = [ret EXCEPT !["api"] = DeleteResponse(db, id)]
  /\ UNCHANGED <<driver, gmail, now, idgen, inv, domainCache, kv, hist>>

Next ==
  \/ \E r \in Runners : BatchSyncStart(r)
  \/ \E r \in Runners : BatchSyncMessage(r)
  \/ \E r \in Runners : BatchSyncStoreFails(r)
  \/ \E r \in Runners : BatchSyncPageDone(r)
  \/ \E r \in Runners : FullSyncStart(r)
  \/ \E r \in Runners : FullSyncMessage(r)
  \/ \E r \in Runners : FullSyncPageDone(r)
  \/ \E r \in Runners : IncrementalSyncStart(r)
  \/ \E r \in Runners : IncrementalSyncHistory(r)
  \/ \E r \in Runners : IncrementalSyncMessage(r)
  \/ \E r \in Runners : IncrementalSyncPageDone(r)
  \/ \E r \in Runners : Crash(r)
  \/ \E r \in Runners : NewInstance(r)
  \/ \E a \in DOMAIN gmail : Arrive(a)
  \/ Tick
  \/ BlacklistAdd
  \/ BlacklistRemove
  \/ CompanyDelete

Spec == Init /\ [][Next]_vars

(***************************************************************************)
(* Vocabulary of the properties.                                           *)
(***************************************************************************)
CounterFields == {"emails_to", "emails_from", "emails_included"}

\* the four entity tables
Entities(d) == <<d.companies, d.domains, d.contacts, d.emails>>

CountersOfTable(table) ==
  [ k \in DOMAIN table |-> [ f \in CounterFields |-> table[k][f] ] ]

\* every emails_to / emails_from / emails_included value of the store
CountersOf(d) ==
  << CountersOfTable(d.companies), CountersOfTable(d.domains),
     CountersOfTable(d.contacts), CountersOfTable(d.emails) >>

\* the row of a table under a key, <<>> when there is none
RowAt(table, k) == IF k \in DOMAIN table THEN <<table[k]>> ELSE <<>>

\* this step is one loop iteration of a sync method of runner r over a message
MessageStep(r) ==
  /\ inv[r].pc \in {"batch", "full", "incr"}
  /\ inv[r].idx <= Len(inv[r].messages)
  /\ inv'[r].pc = inv[r].pc
  /\ inv'[r].idx = inv[r].idx + 1

\* the message that iteration is about
CurrentId(r) == inv[r].messages[inv[r].idx]

\* the iteration's processMessage call returned (the try block ran to its end)
Committed(r) ==
  /\ MessageStep(r)
  /\ inv'[r].result.messagesProcessed = inv[r].result.messagesProcessed + 1

RECURSIVE SumField(_, _, _)
SumField(table, keys, field) ==
  IF keys = {} THEN 0
  ELSE LET k == CHOOSE x \in keys : TRUE
       IN  table[k][field] + SumField(table, keys \ {k}, field)

(***************************************************************************)
(* C1.  Replay through batchSync is idempotent: a batchSync loop iteration *)
(* over a message that an earlier batchSync iteration has already handled  *)
(* (the same page listed again, also after a crash between the mutation    *)
(* batch and the SyncState write) leaves the Company, Domain, Contact,     *)
(* EmailAddress and ProcessedMessage tables as they were.                  *)
(***************************************************************************)
C1_BatchReplayIdempotent ==
  [][ \A r \in Runners :
        (MessageStep(r) /\ inv[r].pc = "batch" /\ CurrentId(r) \in delivered)
          => /\ Entities(db') = Entities(db)
             /\ db'.processed_messages = db.processed_messages ]_vars

\* a page has been replayed: a message with entities in the store was handled twice
C1_Witness ==
  \E id \in redelivered :
     /\ id \in DOMAIN db.processed_messages
     /\ DOMAIN db.emails # {}
     /\ \E r \in Runners : ret[r].via = "batchSync"

(***************************************************************************)
(* C2.  As the claim states it: once a message has a ProcessedMessage row, *)
(* a loop iteration of batchSync, incrementalSync or fullSync over it      *)
(* changes no emails_to, emails_from or emails_included value.             *)
(* fullSync has no isMessageProcessed test, so this does not hold.         *)
(***************************************************************************)
C2_Original ==
  [][ \A r \in Runners :
        (MessageStep(r) /\ isMessageProcessed(db, CurrentId(r)))
          => CountersOf(db') = CountersOf(db) ]_vars

(***************************************************************************)
(* C3.  For every Company K, each of emails_to, emails_from and            *)
(* emails_included of K equals the sum of that counter over the Contacts   *)
(* whose company_id is K.                                                  *)
(***************************************************************************)
C3_CompanyIsSumOfContacts ==
  \A k \in DOMAIN db.companies :
     \A f \in CounterFields :
        db.companies[k][f] =
          SumField(db.contacts, {c \in DOMAIN db.contacts : db.contacts[c].company_id = k}, f)

\* a company counts two contacts at one domain in one message
C3_Witness ==
  \E k \in DOMAIN db.companies :
     /\ db.companies[k].emails_to >= 2
     /\ Cardinality({c \in DOMAIN db.contacts :
                       db.contacts[c].company_id = k /\ db.contacts[c].emails_to > 0}) >= 2

\* ... a company whose rows were inserted by a message whose update batch failed
C3_WitnessFailedUpdate ==
  \E k \in DOMAIN db.companies :
     /\ db.companies[k].first_seen = <<>>
     /\ \E c \in DOMAIN db.contacts : db.contacts[c].company_id = k

(***************************************************************************)
(* What a loop iteration of runner r sees in its message.                  *)
(***************************************************************************)
\* the parsed From, To and Cc addresses of the message, in header order
Addressed(r) == allEmailsOf(Catalog[CurrentId(r)])

Self(r) == lower(MyEmail[inv[r].account])

\* is_blacklisted as the runner's BlacklistService answers it in this step
Blacklisted(r, email) == isBlacklisted(domainCache[r], db.blacklist, email)

\* the positions of the addresses that are neither the account's own nor blacklisted
Counted(r) ==
  { i \in 1..Len(Addressed(r)) :
      Addressed(r)[i].email # Self(r) /\ ~Blacklisted(r, Addressed(r)[i].email) }

SentByMe(r) ==
  \E i \in 1..Len(Addressed(r)) :
     Addressed(r)[i].role = "from" /\ Addressed(r)[i].email = Self(r)

\* the Domain row and the Company row of a domain, <<>> where there is none
DomainAndCompany(d, domain) ==
  << RowAt(d.domains, domain),
     IF domain \in DOMAIN d.domains
     THEN RowAt(d.companies, d.domains[domain].company_id) ELSE <<>> >>

\* the EmailAddress row and the Contact row of an address
EmailAndContact(d, email) ==
  << RowAt(d.emails, email),
     IF email \in DOMAIN d.emails
     THEN RowAt(d.contacts, d.emails[email].contact_id) ELSE <<>> >>

(***************************************************************************)
(* C4 as the claim states it: processing a message creates and changes     *)
(* nothing derived from an address of the message that is blacklisted: not *)
(* its EmailAddress, not its Contact, not the Domain of its domain and not *)
(* that Domain's Company; and when every address other than the account's  *)
(* own is blacklisted no entity changes at all.                            *)
(* An address blacklisted as transactional can share its domain with an    *)
(* address that is counted, and then the Domain and the Company change.    *)
(***************************************************************************)
C4_Original ==
  [][ \A r \in Runners :
        MessageStep(r) =>
          /\ \A i \in 1..Len(Addressed(r)) :
                Blacklisted(r, Addressed(r)[i].email) =>
                  /\ EmailAndContact(db', Addressed(r)[i].email)
                       = EmailAndContact(db, Addressed(r)[i].email)
                  /\ DomainAndCompany(db', Addressed(r)[i].domain)
                       = DomainAndCompany(db, Addressed(r)[i].domain)
          /\ Counted(r) = {} => Entities(db') = Entities(db) ]_vars

(***************************************************************************)
(* C4, amended.  Processing a message creates no EmailAddress and no       *)
(* Contact for a blacklisted address of the message and changes neither;   *)
(* the Domain of that address and the Domain's Company are created or      *)
(* changed only if the message also holds an address at the same domain    *)
(* that is neither blacklisted nor the account's own; and when every       *)
(* address other than the account's own is blacklisted, no entity is       *)
(* created or changed.                                                     *)
(***************************************************************************)
C4_BlacklistedLeavesNoTrace ==
  [][ \A r \in Runners :
        MessageStep(r) =>
          /\ \A i \in 1..Len(Addressed(r)) :
                Blacklisted(r, Addressed(r)[i].email) =>
                  /\ EmailAndContact(db', Addressed(r)[i].email)
                       = EmailAndContact(db, Addressed(r)[i].email)
                  /\ (\A j \in Counted(r) : Addressed(r)[j].domain # Addressed(r)[i].domain)
                       => DomainAndCompany(db', Addressed(r)[i].domain)
                            = DomainAndCompany(db, Addressed(r)[i].domain)
          /\ Counted(r) = {} => Entities(db') = Entities(db) ]_vars

\* a message with a transactional address at a counted domain has been processed, and
\* so has a message all of whose addresses but the account's own are blacklisted
C4_Witness ==
  /\ "m4" \in DOMAIN db.processed_messages
  /\ "m3" \in DOMAIN db.processed_messages
  /\ "bob@beta.io" \in DOMAIN db.emails
  /\ db.emails["bob@beta.io"].emails_from >= 1
  /\ "support@beta.io" \notin DOMAIN db.emails
  /\ "mail.promo.biz" \notin DOMAIN db.domains
  /\ "spam.io" \notin DOMAIN db.domains

(***************************************************************************)
(* C5.  A processed message adds to the counters of every Company, Domain, *)
(* Contact and EmailAddress the sum of the deltas of the counted addresses *)
(* of the message that belong to it: emails_to 1 for a To address of a     *)
(* message sent by the account, emails_from 1 for the From address of a    *)
(* message not sent by the account, emails_included 1 for a Cc address.    *)
(***************************************************************************)
Expected(r, positions) ==
  [ emails_to       |-> Cardinality({i \in positions : SentByMe(r) /\ Addressed(r)[i].role = "to"}),
    emails_from     |-> Cardinality({i \in positions : ~SentByMe(r) /\ Addressed(r)[i].role = "from"}),
    emails_included |-> Cardinality({i \in positions : Addressed(r)[i].role = "cc"}) ]

\* the counters of the row under k after the step are those before it (zero for a
\* row the step created) plus what the addresses at the positions contribute
GrowsBy(r, before, after, k, positions) ==
  \A f \in CounterFields :
     after[k][f] = (IF k \in DOMAIN before THEN before[k][f] ELSE 0) + Expected(r, positions)[f]

C5_CountersGrowBySummedDeltas ==
  [][ \A r \in Runners :
        Committed(r) =>
          /\ \A e \in DOMAIN db'.emails :
                GrowsBy(r, db.emails, db'.emails, e,
                        {i \in Counted(r) : Addressed(r)[i].email = e})
          /\ \A d \in DOMAIN db'.domains :
                GrowsBy(r, db.domains, db'.domains, d,
                        {i \in Counted(r) : Addressed(r)[i].domain = d})
          /\ \A c \in DOMAIN db'.contacts :
                GrowsBy(r, db.contacts, db'.contacts, c,
                        {i \in Counted(r) : db'.emails[Addressed(r)[i].email].contact_id = c})
          /\ \A k \in DOMAIN db'.companies :
                GrowsBy(r, db.companies, db'.companies, k,
                        {i \in Counted(r) : db'.domains[Addressed(r)[i].domain].company_id = k}) ]_vars

\* Scenario B: a message sent by the account to two addresses at one domain, Cc a third
C5_Witness ==
  /\ {"jane@beta.io", "bob@beta.io", "carol@gamma.com"} \subseteq DOMAIN db.emails
  /\ db.emails["jane@beta.io"].emails_to = 1
  /\ db.emails["bob@beta.io"].emails_to = 1
  /\ db.emails["carol@gamma.com"].emails_included = 1
  /\ db.domains["beta.io"].emails_to = 2
  /\ db.companies[db.domains["beta.io"].company_id].emails_to = 2
  /\ db.companies[db.domains["gamma.com"].company_id].emails_included = 1

(***************************************************************************)
(* C6.  Every Company, Domain, Contact and EmailAddress has first_seen and *)
(* last_seen both null, or both set with first_seen <= last_seen; and a    *)
(* processed message dated d leaves on each entity it counts               *)
(* first_seen = min(previous, d) and last_seen = max(previous, d), a null  *)
(* previous value being replaced by d, and leaves the others as they were. *)
(***************************************************************************)
SeenOrdered(row) ==
  \/ row.first_seen = <<>> /\ row.last_seen = <<>>
  \/ /\ row.first_seen # <<>>
     /\ row.last_seen # <<>>
     /\ ~LexLess(row.last_seen, row.first_seen)

AllSeenOrdered(d) ==
  /\ \A k \in DOMAIN d.companies : SeenOrdered(d.companies[k])
  /\ \A k \in DOMAIN d.domains : SeenOrdered(d.domains[k])
  /\ \A k \in DOMAIN d.contacts : SeenOrdered(d.contacts[k])
  /\ \A k \in DOMAIN d.emails : SeenOrdered(d.emails[k])

\* x is the earlier (later) of the date `date' and the previous value, if there was one
IsMin(x, previous, date) ==
  IF previous = <<>> THEN x = date
  ELSE x \in {previous, date} /\ ~LexLess(previous, x) /\ ~LexLess(date, x)

IsMax(x, previous, date) ==
  IF previous = <<>> THEN x = date
  ELSE x \in {previous, date} /\ ~LexLess(x, previous) /\ ~LexLess(x, date)

SeenMoves(before, after, k, touched, date) ==
  LET first == IF k \in DOMAIN before THEN before[k].first_seen ELSE <<>>
      last  == IF k \in DOMAIN before THEN before[k].last_seen ELSE <<>>
  IN  IF touched
      THEN IsMin(after[k].first_seen, first, date) /\ IsMax(after[k].last_seen, last, date)
      ELSE after[k].first_seen = first /\ after[k].last_seen = last

C6_SeenStep ==
  \A r \in Runners :
     Committed(r) =>
       LET date == messageDateOf(Catalog[CurrentId(r)])
       IN  /\ \A e \in DOMAIN db'.emails :
                 SeenMoves(db.emails, db'.emails, e,
                           \E i \in Counted(r) : Addressed(r)[i].email = e, date)
           /\ \A d \in DOMAIN db'.domains :
                 SeenMoves(db.domains, db'.domains, d,
                           \E i \in Counted(r) : Addressed(r)[i].domain = d, date)
           /\ \A c \in DOMAIN db'.contacts :
                 SeenMoves(db.contacts, db'.contacts, c,
                           \E i \in Counted(r) : db'.emails[Addressed(r)[i].email].contact_id = c,
                           date)
           /\ \A k \in DOMAIN db'.companies :
                 SeenMoves(db.companies, db'.companies, k,
                           \E i \in Counted(r) : db'.domains[Addressed(r)[i].domain].company_id = k,
                           date)

C6_FirstSeenLastSeen == []AllSeenOrdered(db) /\ [][C6_SeenStep]_vars

\* an address counted in messages of two dates: first_seen is the earlier, last_seen the later
C6_Witness ==
  /\ "jane@beta.io" \in DOMAIN db.emails
  /\ db.emails["jane@beta.io"].first_seen = messageDateOf(Catalog["m1"])
  /\ db.emails["jane@beta.io"].last_seen = messageDateOf(Catalog["m4"])
  /\ db.contacts[db.emails["jane@beta.io"].contact_id].first_seen = messageDateOf(Catalog["m1"])
  /\ db.domains["beta.io"].last_seen = messageDateOf(Catalog["m4"])

(***************************************************************************)
(* C7 as the claim states it: after a message's processing has committed   *)
(* for an address, the first element of recent_threads of the address's    *)
(* Contact and of its EmailAddress is the message's {threadId, account,    *)
(* message date}.  The batched processMessage never writes recent_threads. *)
(***************************************************************************)
ThreadOf(r) ==
  [ threadId  |-> Catalog[CurrentId(r)].threadId,
    account   |-> inv[r].account,
    timestamp |-> messageDateOf(Catalog[CurrentId(r)]) ]

HeadIs(threads, thread) == threads # <<>> /\ threads[1] = thread

C7_Original ==
  [][ \A r \in Runners :
        Committed(r) =>
          \A i \in Counted(r) :
             /\ HeadIs(db'.emails[Addressed(r)[i].email].recent_threads, ThreadOf(r))
             /\ HeadIs(db'.contacts[db'.emails[Addressed(r)[i].email].contact_id].recent_threads,
                       ThreadOf(r)) ]_vars

(***************************************************************************)
(* ContactRepository.updateStatsAndThread and                              *)
(* EmailRepository.updateStatsAndThread (repositories/contact.ts and       *)
(* repositories/email.ts): the keepers of recent_threads.  SpecThreads     *)
(* drives the two methods as their caller does, once per counted address   *)
(* of a message, for one stored contact with one address.  Thread ids are  *)
(* numbered in the order in which the threads are first seen.              *)
(***************************************************************************)
MAX_THREADS_PER_CONTACT == 100

\* the number of distinct threads a behaviour of SpecThreads may see
MaxThreadIds == 102

\* the number of messages of an already listed thread it may see
MaxReAdds == 1

\* a message of a listed thread is seen only when the list length is a multiple of this
ReAddEvery == 25

\* threads.findIndex((t) => t.threadId === thread.threadId)
findIndex(threads, threadId) ==
  IF \E i \in 1..Len(threads) : threads[i].threadId = threadId
  THEN (CHOOSE i \in 1..Len(threads) :
          /\ threads[i].threadId = threadId
          /\ \A j \in 1..(i - 1) : threads[j].threadId # threadId) - 1
  ELSE -1

\* threads.splice(index, 1)
splice(threads, index) == SubSeq(threads, 1, index) \o SubSeq(threads, index + 2, Len(threads))

\* threads.unshift(thread)
unshift(threads, thread) == <<thread>> \o threads

\* threads.slice(0, end)
slice(threads, end) == SubSeq(threads, 1, Min(end, Len(threads)))

\* a variant of the list update without the findIndex / splice step
recentThreadsUnspliced(threads, thread) == slice(unshift(threads, thread), MAX_THREADS_PER_CONTACT)

\* "Add new thread and deduplicate", "Cap at max"
recentThreads(threads, thread) ==
  slice(unshift(IF findIndex(threads, thread.threadId) >= 0
                THEN splice(threads, findIndex(threads, thread.threadId))
                ELSE threads,
                thread),
        MAX_THREADS_PER_CONTACT)

\* the UPDATE of one row: stats is [emails_to, emails_from, emails_included, seen],
\* thread is <<>> (undefined) or <<ThreadReference>>
updateStatsAndThreadRow(row, stats, thread) ==
  [ UpdateStatsRow(row, stats, stats.seen) EXCEPT
      !.recent_threads = IF thread # <<>> THEN recentThreads(@, thread[1]) ELSE @ ]

\* ContactRepository.updateStatsAndThread
ContactRepository_updateStatsAndThread(contacts, id, stats, thread) ==
  IF id \in DOMAIN contacts
  THEN [contacts EXCEPT ![id] = updateStatsAndThreadRow(@, stats, thread)]
  ELSE contacts

\* EmailRepository.updateStatsAndThread
EmailRepository_updateStatsAndThread(emails, email, stats, thread) ==
  IF lower(email) \in DOMAIN emails
  THEN [emails EXCEPT ![lower(email)] = updateStatsAndThreadRow(@, stats, thread)]
  ELSE emails

\* the store holding one company, its domain, one contact and the contact's address
ThreadsDb ==
  [ EmptyDb EXCEPT !.companies = Put(@, 1, NewCompanyRow("beta.io")),
                   !.domains = Put(@, "beta.io", NewDomainRow(1)),
                   !.contacts = Put(@, 2, NewContactRow(1, "Jane Roe")),
                   !.emails = Put(@, "jane@beta.io", NewEmailRow(2, "beta.io", "Jane Roe")) ]

ThreadsInit ==
  /\ db = ThreadsDb
  /\ gmail = [a \in Accounts |-> <<>>]
  /\ now = 47
  /\ idgen = 0
  /\ inv = [r \in {"cron"} |-> Idle("work")]
  /\ domainCache = [r \in {"cron"} |-> <<>>]
  /\ kv = <<>>
  /\ driver = <<>>
  /\ ret = [r \in {"cron"} |-> NoReturn]
  /\ delivered = {}
  /\ redelivered = {}
  /\ lastWindow = [a \in Accounts |-> <<>>]
  /\ events = 0

\* "Update stats at all levels", the two calls that carry the thread: a message
\* of thread threadId received from jane@beta.io
UpdateStatsAndThread(threadId) ==
  LET statUpdate == [emails_to |-> 0, emails_from |-> 1, emails_included |-> 0,
                     seen |-> toISOString(now)]
      thread == [threadId |-> threadId, account |-> "work", timestamp |-> toISOString(now)]
  IN  db' = [ db EXCEPT
                !.contacts = ContactRepository_updateStatsAndThread(@, 2, statUpdate, <<thread>>),
                !.emails = EmailRepository_updateStatsAndThread(@, "Jane@beta.io", statUpdate,
                                                                <<thread>>) ]

\* a message of a thread not seen before
ThreadFirstSeen ==
  /\ idgen < MaxThreadIds
  /\ idgen' = idgen + 1
  /\ UpdateStatsAndThread(idgen + 1)
  /\ UNCHANGED <<driver, gmail, now, inv, domainCache, kv, ret, hist, events>>

\* a further message of a thread that is in the list: the newest, the middle or the oldest
ThreadSeenAgain ==
  /\ events < MaxReAdds
  /\ db.contacts[2].recent_threads # <<>>
  /\ Len(db.contacts[2].recent_threads) % ReAddEvery = 0
  /\ events' = events + 1
  /\ \E i \in {1, (Len(db.contacts[2].recent_threads) + 1) \div 2, Len(db.contacts[2].recent_threads)} :
       UpdateStatsAndThread(db.contacts[2].recent_threads[i].threadId)
  /\ UNCHANGED <<driver, gmail, now, idgen, inv, domainCache, kv, ret, hist>>

ThreadsNext ==
  \/ ThreadFirstSeen
  \/ ThreadSeenAgain

SpecThreads == ThreadsInit /\ [][ThreadsNext]_vars

(***************************************************************************)
(* C8.  recent_threads of every Contact and every EmailAddress holds at    *)
(* most 100 entries with pairwise distinct threadId; adding a thread whose *)
(* threadId is in the list removes the old entry and puts the new one      *)
(* first; adding a new thread to a list of 100 drops the last entry.       *)
(***************************************************************************)
ThreadIds(threads) == { threads[i].threadId : i \in 1..Len(threads) }

WellFormedThreads(threads) ==
  /\ Len(threads) <= 100
  /\ \A i, j \in 1..Len(threads) : threads[i].threadId = threads[j].threadId => i = j

AllThreadsWellFormed ==
  /\ \A c \in DOMAIN db.contacts : WellFormedThreads(db.contacts[c].recent_threads)
  /\ \A e \in DOMAIN db.emails : WellFormedThreads(db.emails[e].recent_threads)

\* the entries of a list in order, but for those of one thread
Without(threads, threadId) ==
  LET Other(t) == t.threadId # threadId IN SelectSeq(threads, Other)

\* `after' is `before' with a thread added
ThreadAdded(before, after) ==
  /\ after # <<>>
  /\ IF after[1].threadId \in ThreadIds(before)
     THEN Tail(after) = Without(before, after[1].threadId)
     ELSE IF Len(before) = 100
     THEN Tail(after) = SubSeq(before, 1, 99)
     ELSE Tail(after) = before

C8_ThreadsStep ==
  /\ \A c \in DOMAIN db.contacts :
        ThreadAdded(db.contacts[c].recent_threads, db'.contacts[c].recent_threads)
  /\ \A e \in DOMAIN db.emails :
        ThreadAdded(db.emails[e].recent_threads, db'.emails[e].recent_threads)
  /\ idgen' # idgen => db'.emails["jane@beta.io"].recent_threads[1].threadId = idgen'

C8_RecentThreadsBounded == []AllThreadsWellFormed /\ [][C8_ThreadsStep]_vars

\* a full list that has dropped its oldest entries and has had a listed thread moved to the front
C8_Witness ==
  /\ Len(db.contacts[2].recent_threads) = 100
  /\ Len(db.emails["jane@beta.io"].recent_threads) = 100
  /\ idgen > 100
  /\ events = 1
  /\ db.emails["jane@beta.io"].recent_threads[1].threadId < idgen
  /\ 1 \notin ThreadIds(db.contacts[2].recent_threads)

(***************************************************************************)
(* The day cursor of batchSync.                                            *)
(***************************************************************************)
\* the day a batchSync invocation of the account would read from SyncState
BatchDay(d, a) ==
  IF getSyncState(d, a).batch_current_date = <<>> THEN <<2000, 1, 1>>
  ELSE getSyncState(d, a).batch_current_date

\* the calendar day after a day
DayAfter(day) ==
  IF day[3] < DaysInMonth(day[1], day[2]) THEN <<day[1], day[2], day[3] + 1>>
  ELSE IF day[2] < 12 THEN <<day[1], day[2] + 1, 1>>
  ELSE <<day[1] + 1, 1, 1>>

\* this step is the start of a batchSync invocation of runner r
BatchSyncInvoked(r) ==
  /\ inv[r].pc = "idle"
  /\ ret'[r] # ret[r]
  /\ ret'[r].via = "batchSync"

\* the last SyncState write of batchSync for the account advanced the day
DayAdvanced(a) ==
  /\ getSyncState(db, a).batch_current_date # <<>>
  /\ getSyncState(db, a).batch_page_token = <<>>

\* every message the provider lists for window `later' is dated after every
\* message it lists for window `earlier' (by the date the provider searches on)
StrictlyLater(later, earlier) ==
  \A m, n \in MessageIds :
     Matches(m, later) /\ Matches(n, earlier) => Catalog[m].internalDate > Catalog[n].internalDate

\* the windows batchSync lists never go back, and a change of window is a move to later messages
WindowsMoveOn(a) ==
  (lastWindow[a] # <<>> /\ lastWindow'[a] # lastWindow[a])
     => /\ LexLess(lastWindow[a][1], lastWindow'[a][1])
        /\ StrictlyLater(lastWindow'[a], lastWindow[a])

(***************************************************************************)
(* C9 as the claim states it: after a batchSync invocation that advanced   *)
(* batch_day from d to d+1, the next batchSync invocation of the account   *)
(* lists the window [d+1, d+2), whose messages are all dated after those   *)
(* of [d, d+1), and no later invocation lists an earlier window.           *)
(* When d+1 is after today the next invocation returns without listing.    *)
(***************************************************************************)
C9_Original ==
  [][ \A r \in Runners :
        /\ (BatchSyncInvoked(r) /\ DayAdvanced(inv[r].account))
              => lastWindow'[inv[r].account]
                   = <<BatchDay(db, inv[r].account), DayAfter(BatchDay(db, inv[r].account))>>
        /\ WindowsMoveOn(inv[r].account) ]_vars

(***************************************************************************)
(* C9, amended.  A SyncState write changes batch_day only from d to d+1.   *)
(* A batchSync invocation that finds batch_day = d' lists nothing and      *)
(* writes nothing when d' is after today, and otherwise lists exactly the  *)
(* window [d', d'+1); so after an advance from d to d+1 the next           *)
(* invocation that lists anything lists [d+1, d+2).  Every message of that *)
(* window is dated (by the provider's date, on which the listing selects)  *)
(* after every message of [d, d+1), and the windows listed never go back.  *)
(***************************************************************************)
C9_WindowsAdvance ==
  [][ \A r \in Runners :
        /\ BatchSyncInvoked(r) =>
             IF LexLess(isoDay(now), BatchDay(db, inv[r].account))
             THEN lastWindow' = lastWindow /\ db' = db
             ELSE lastWindow'[inv[r].account]
                    = <<BatchDay(db, inv[r].account), DayAfter(BatchDay(db, inv[r].account))>>
        /\ BatchDay(db', inv[r].account) # BatchDay(db, inv[r].account)
             => BatchDay(db', inv[r].account) = DayAfter(BatchDay(db, inv[r].account))
        /\ WindowsMoveOn(inv[r].account) ]_vars

\* the second day's window is being listed after the first day's was completed
C9_Witness ==
  /\ lastWindow["work"] = <<<<2000, 1, 2>>, <<2000, 1, 3>>>>
  /\ BatchDay(db, "work") = <<2000, 1, 2>>
  /\ inv["cron"].pc = "batch"
  /\ "m4" \in Range(inv["cron"].messages)
  /\ {"m1", "m2", "m3"} \subseteq DOMAIN db.processed_messages

(***************************************************************************)
(* C10 as the claim states it: incrementalSync delegates to fullSync when  *)
(* no provider cursor is recorded, falls back to fullSync when getHistory  *)
(* fails with status 404, and on any other provider error throws it and    *)
(* leaves last_history_id as it was.  The fallback test is a substring     *)
(* test on the error message, which holds the response text too.           *)
(***************************************************************************)
\* fullSync has been entered in this step
FullSyncEntered(r) ==
  \/ inv'[r].pc = "full"
  \/ inv'[r].pc = "idle" /\ ret'[r].outcome = "returned"

C10_Original ==
  [][ \A r \in Runners :
        /\ ( /\ inv[r].pc = "idle"
             /\ ret'[r] # ret[r]
             /\ ret'[r].via = "incrementalSync"
             /\ getSyncState(db, inv[r].account).last_history_id = <<>> )
              => FullSyncEntered(r)
        /\ \A e \in ProviderErrors :
              (inv[r].pc = "history" /\ ret'[r].caught = ErrorMessage(e))
                 => IF e.status = "404"
                    THEN FullSyncEntered(r)
                    ELSE /\ ret'[r].outcome = "threw"
                         /\ ret'[r].error = ErrorMessage(e)
                         /\ getSyncState(db', inv[r].account).last_history_id
                              = getSyncState(db, inv[r].account).last_history_id ]_vars

(***************************************************************************)
(* C11 as the claim states it: when processMessage fails for a message of  *)
(* a page in batchSync or incrementalSync, the loop goes on to the next    *)
(* message, the message id is added to errors, the page still ends with    *)
(* its SyncState write, and the failed message has a ProcessedMessage row. *)
(* incrementalSync marks a message only after processMessage has returned, *)
(* so there the failed message has no row.                                 *)
(***************************************************************************)
\* the iteration's processMessage call threw
Failed(r) ==
  /\ MessageStep(r)
  /\ inv'[r].result.errors # inv[r].result.errors

\* the step in which a sync method of runner r returns its result
Returns(r) ==
  /\ inv[r].pc \in {"batch", "incr"}
  /\ inv'[r].pc = "idle"
  /\ ret'[r].outcome = "returned"

C11_Original ==
  [][ \A r \in Runners :
        /\ (Failed(r) /\ inv[r].pc \in {"batch", "incr"})
              => /\ inv'[r].result.errors = Append(inv[r].result.errors, CurrentId(r))
                 /\ inv'[r].messages = inv[r].messages
                 /\ isMessageProcessed(db', CurrentId(r))
        /\ (Returns(r) /\ inv[r].result.errors # <<>>)
              => /\ ret'[r].result.errors = inv[r].result.errors
                 /\ getSyncState(db', inv[r].account) # getSyncState(db, inv[r].account) ]_vars


(***************************************************************************)
(* index.ts : the scheduled handler runs runAccountSync for the work and   *)
(* the personal account under one Promise.all.  The two batchSync loops    *)
(* share the database and interleave at the store calls of processMessage: *)
(* the lookups, the insert batch and the update batch.                     *)
(***************************************************************************)
\* env.MY_EMAIL_WORK and env.MY_EMAIL_PERSONAL
RaceMyEmail == [a \in {"work", "personal"} |-> IF a = "work" THEN "Me@Acme.com" ELSE "me@gmail.com"]

\* the pages the two loops work through
RacePages ==
  [ work : {<<"m1">>, <<"m1", "m4">>}, personal : {<<"m5">>, <<"m2", "m5">>, <<"m2", "m6">>} ]

NoPlan ==
  [ messageDate |-> <<>>, fromMe |-> FALSE, validEmails |-> <<>>, newCompanies |-> <<>>,
    newContacts |-> <<>>, domainToCompanyId |-> <<>>, emailToContact |-> <<>> ]

\* a batchSync loop of an account over a page, before its first message
Racer(account, messages) ==
  [ pc |-> "lookup", account |-> account, messages |-> messages, idx |-> 1, plan |-> NoPlan,
    result |-> ZeroResult ]

RaceInit ==
  /\ db = InitDb
  /\ gmail = [a \in Accounts |-> <<>>]
  /\ now = 47
  /\ idgen = 0
  /\ \E pages \in RacePages : inv = [a \in {"work", "personal"} |-> Racer(a, pages[a])]
  /\ domainCache = [a \in {"work", "personal"} |-> loadFromDb(InitDb.blacklist)]
  /\ kv = <<>>
  /\ driver = <<>>
  /\ ret = [a \in {"work", "personal"} |-> NoReturn]
  /\ delivered = {}
  /\ redelivered = {}
  /\ lastWindow = [a \in Accounts |-> <<>>]
  /\ events = 0

\* the loop's next state once the lookups of a message are done: a message
\* without counted addresses is finished, the others go on to their batches
AfterLookup(racer, id, plan) ==
  IF Len(plan.validEmails) = 0
  THEN [racer EXCEPT !.idx = @ + 1, !.result = Tally(@, id, Outcome(<<>>, FALSE, 0, 0, 0))]
  ELSE [racer EXCEPT !.plan = plan,
                     !.pc = IF Len(plan.newCompanies) + Len(plan.newContacts) > 0
                            THEN "insert" ELSE "update"]

\* the loop head and PHASE 1 to 3 of processMessage: isMessageProcessed,
\* markMessageProcessed, the two SELECTs and the staging of the new rows
RaceLookup(r) ==
  /\ inv[r].pc = "lookup"
  /\ inv[r].idx <= Len(inv[r].messages)
  /\ LET id == inv[r].messages[inv[r].idx]
     IN  IF isMessageProcessed(db, id)
         THEN /\ inv' = [inv EXCEPT ![r].idx = @ + 1]
              /\ UNCHANGED <<db, idgen>>
         ELSE /\ db' = markMessageProcessed(db, r, id)
              /\ \E plan \in {Plan(db, domainCache[r], Catalog[id], RaceMyEmail[r], idgen)} :
                   /\ idgen' = idgen + Len(plan.newCompanies) + Len(plan.newContacts)
                   /\ inv' = [inv EXCEPT ![r] = AfterLookup(@, id, plan)]
  /\ UNCHANGED <<driver, gmail, now, domainCache, kv, ret, hist, events>>

\* "Execute all inserts in a single batch": the batch commits, or a statement
\* violates a constraint, the batch is rolled back and processMessage throws
\* into the catch of the loop
RaceInsert(r) ==
  /\ inv[r].pc = "insert"
  /\ IF InsertBatchConflicts(db, inv[r].plan)
     THEN /\ inv' = [inv EXCEPT ![r].pc = "lookup", ![r].idx = @ + 1, ![r].plan = NoPlan,
                                ![r].result = Tally(@, inv[r].messages[inv[r].idx],
                                                    Outcome(<<>>, TRUE, 0, 0, 0))]
          /\ UNCHANGED db
     ELSE /\ inv' = [inv EXCEPT ![r].pc = "update"]
          /\ db' = InsertBatch(db, inv[r].plan)
  /\ UNCHANGED <<driver, gmail, now, idgen, domainCache, kv, ret, hist, events>>

\* "Execute all updates in a single batch", and the return to the loop
RaceUpdate(r) ==
  /\ inv[r].pc = "update"
  /\ db' = UpdateBatch(db, inv[r].plan)
  /\ inv' = [inv EXCEPT ![r].pc = "lookup", ![r].idx = @ + 1, ![r].plan = NoPlan,
                        ![r].result = Tally(@, inv[r].messages[inv[r].idx],
                                            Outcome(<<>>, FALSE, 0, Len(inv[r].plan.newCompanies),
                                                    Len(inv[r].plan.newContacts)))]
  /\ UNCHANGED <<driver, gmail, now, idgen, domainCache, kv, ret, hist, events>>

RaceNext ==
  \E r \in {"work", "personal"} :
     \/ RaceLookup(r)
     \/ RaceInsert(r)
     \/ RaceUpdate(r)

SpecRace == RaceInit /\ [][RaceNext]_vars


\* both loops have worked through their pages
RaceDone == \A r \in DOMAIN inv : inv[r].pc = "lookup" /\ inv[r].idx > Len(inv[r].messages)

\* the store after processMessage has handled messages[k..] of an account one
\* after the other, nothing else running
RECURSIVE SequentialRun(_, _, _, _, _)
SequentialRun(d, account, messages, k, idBase) ==
  IF k > Len(messages) THEN d
  ELSE LET p == processMessage(d, loadFromDb(InitDb.blacklist), Catalog[messages[k]],
                               RaceMyEmail[account], idBase, "none")
       IN  SequentialRun(p.db, account, messages, k + 1, idBase + p.ids)

\* the store after the page of account first and then the page of account second
Sequential(first, second) ==
  SequentialRun(SequentialRun(InitDb, first, inv[first].messages, 1, 0),
                second, inv[second].messages, 1, 100)

\* the domains that messages of both pages count
SharedDomains ==
  DOMAIN Sequential("work", "personal").domains
    \cap DOMAIN SequentialRun(InitDb, "work", inv["work"].messages, 1, 0).domains
    \cap DOMAIN SequentialRun(InitDb, "personal", inv["personal"].messages, 1, 0).domains

\* the counters of the Domain row and of the Company row of a domain
DomainCounters(d, domain) ==
  << [f \in CounterFields |-> d.domains[domain][f]],
     [f \in CounterFields |-> d.companies[d.domains[domain].company_id][f]] >>

(***************************************************************************)
(* C12 as the claim states it: when the two account threads have processed *)
(* messages that reference the same domain, not stored when they began,    *)
(* the store holds one Domain row and one Company for the domain, the      *)
(* thread whose insert lost the race has gone on with its message instead  *)
(* of failing it, and the Domain and the Company carry the deltas of the   *)
(* messages of both threads.                                               *)
(* processMessage stages INSERT INTO companies / INSERT INTO domains for   *)
(* every domain its lookup did not find and runs them in one batch without *)
(* a conflict clause: the batch of the thread that comes second fails on   *)
(* the primary key of domains, processMessage throws, and the message is   *)
(* recorded in errors with none of its deltas applied.                     *)
(***************************************************************************)
C12_Original ==
  RaceDone =>
    \A domain \in SharedDomains :
       /\ domain \in DOMAIN db.domains
       /\ Cardinality({c \in DOMAIN db.companies : db.companies[c].name = domain}) = 1
       /\ \A r \in DOMAIN inv : inv[r].result.errors = <<>>
       /\ DomainCounters(db, domain) = DomainCounters(Sequential("work", "personal"), domain)


\* the counters and the seen dates of a row
StatsOfRow(row) ==
  [ emails_to |-> row.emails_to, emails_from |-> row.emails_from,
    emails_included |-> row.emails_included, first_seen |-> row.first_seen,
    last_seen |-> row.last_seen ]

\* the counters and seen dates of every EmailAddress and its Contact, by address,
\* and of every Domain and its Company, by domain
StatsView(d) ==
  << [e \in DOMAIN d.emails |-> StatsOfRow(d.emails[e])],
     [e \in DOMAIN d.emails |-> StatsOfRow(d.contacts[d.emails[e].contact_id])],
     [m \in DOMAIN d.domains |-> StatsOfRow(d.domains[m])],
     [m \in DOMAIN d.domains |-> StatsOfRow(d.companies[d.domains[m].company_id])] >>

\* the messages of the page of a thread whose processMessage call returned
CommittedPage(r) ==
  SelectSeqIdx(inv[r].messages,
               {i \in 1..Len(inv[r].messages) :
                  \A j \in 1..Len(inv[r].result.errors) :
                     inv[r].result.errors[j] # inv[r].messages[i]},
               1)

\* the store after the committed messages of first and then those of second
SequentialCommitted(first, second) ==
  SequentialRun(SequentialRun(InitDb, first, CommittedPage(first), 1, 0),
                second, CommittedPage(second), 1, 100)

(***************************************************************************)
(* C13.  When the two account threads have worked through their pages,     *)
(* whatever the interleaving of their lookups, insert batches and update   *)
(* batches, every Company, Domain, Contact and EmailAddress carries the    *)
(* counters, the first_seen and the last_seen that the messages whose      *)
(* update batch ran give when they are processed one after the other, in   *)
(* either order of the threads: each counter is the sum of the deltas,     *)
(* first_seen the earliest and last_seen the latest message date.          *)
(***************************************************************************)
C13_UpdateBatchesCommute ==
  RaceDone =>
    /\ StatsView(db) = StatsView(SequentialCommitted("work", "personal"))
    /\ StatsView(db) = StatsView(SequentialCommitted("personal", "work"))

\* the personal thread's update batch for m5 has run on the rows of jane@beta.io
\* between the work thread's insert batch and update batch for m1
C13_Witness ==
  /\ inv["work"].pc = "update"
  /\ inv["work"].idx = 1
  /\ inv["personal"].messages[1] = "m5"
  /\ inv["personal"].idx = 2
  /\ inv["personal"].result.errors = <<>>
  /\ db.emails["jane@beta.io"].emails_from = 1
  /\ db.companies[db.domains["beta.io"].company_id].first_seen = <<1999, 12, 31, 8>>


(***************************************************************************)
(* The decision functions of BlacklistService and the header parser of     *)
(* utils/email.ts, called on their own: one call of one function on one    *)
(* string, against a persisted blacklist and a cache that is either not    *)
(* loaded or loaded from it.                                               *)
(***************************************************************************)
\* BlacklistCategory
Categories == {"spam", "personal", "transactional", "manual"}

\* the persisted blacklist: the seeded row, alone or with spam.io under a category
CallBlacklists ==
  {[d \in {"gmail.com"} |-> [category |-> "personal", source |-> "seed"]]}
    \cup { [ d \in {"gmail.com", "spam.io"} |->
               IF d = "spam.io" THEN [category |-> c, source |-> NULL]
               ELSE [category |-> "personal", source |-> "seed"] ] : c \in Categories }

\* the addresses the decision functions are called on
AddressInputs ==
  { "jane@beta.io", "friend@spam.io", "Bob@SPAM.IO", "noreply@beta.io", "info@gmail.com",
    "ann@gmail.com", "nobody", "x@", "a@b@spam.io",
    "noreply@playstation.sony.com", "Tom@PlayStation.Sony.com",
    "noreply@playstation.sony.com.evil.io", "tom@playstation.sony.com.evil.io" }

\* the most addresses in a drawn header
MaxAddresses == 3

\* well-formed addresses as a header writes them, with what they denote
WellFormed ==
  { [text |-> "al@b.io", email |-> "al@b.io", name |-> NULL, domain |-> "b.io"],
    [text |-> "\"S, J\" <j@e.io>", email |-> "j@e.io", name |-> "S, J", domain |-> "e.io"],
    [text |-> "J R <J@B.io>", email |-> "j@b.io", name |-> "J R", domain |-> "b.io"],
    [text |-> "<bob@c.io>", email |-> "bob@c.io", name |-> NULL, domain |-> "c.io"] }

HeaderParts == UNION { [1..n -> WellFormed] : n \in 1..MaxAddresses }

\* the addresses of a header, separated by a comma and a space
RECURSIVE JoinHeader(_, _)
JoinHeader(parts, i) ==
  IF i > Len(parts) THEN ""
  ELSE IF i = Len(parts) THEN parts[i].text
  ELSE parts[i].text \o ", " \o JoinHeader(parts, i + 1)

\* single tokens, valid and not
TokenInputs ==
  { "john@acme.com", "john.doe@acme.co.uk", "invalid", "@acme.com", "john@", "john@acme",
    "a@b@c.io", "a@@c.io", "x@.", "@", "a@b.", "" }

\* the headers the parser is called on: lists of well-formed addresses, single
\* tokens, and headers with tokens that are no addresses
HeaderInputs ==
  { JoinHeader(parts, 1) : parts \in HeaderParts }
    \cup TokenInputs
    \cup { "\"Smith, John\" <john@example.com>", "john@acme.com, jane@acme.com",
           "not-an-email", " , ,", "nobody, x@, @acme.com, john@acme", "John <john@>",
           "nobody, jane@beta.io", "<a,b@x.io>, \"c,d\"@y.io" }

\* the local parts the pattern tests name as system senders, some in upper case
SystemNames ==
  { "noreply", "no-reply", "no_reply", "no.reply", "donotreply", "do-not-reply", "do_not_reply",
    "do.not.reply", "notifications", "notification", "alerts", "alert", "newsletter", "news",
    "support", "info", "sales", "marketing", "billing", "updates",
    "NOREPLY", "No-Reply", "Support", "INFO", "Do.Not.Reply" }

\* the local parts the pattern tests name as ordinary senders
OrdinaryNames == {"john", "john.smith", "ceo", "engineering", "John", "CEO"}

TwoLabelDomains == {"company.com", "example.com", "Example.COM", "mit.edu"}

\* the addresses the pattern table is tried on
PatternInputs ==
  { name \o "@" \o domain : name \in SystemNames \cup OrdinaryNames, domain \in TwoLabelDomains }

CallsInit ==
  /\ \/ \E blacklist \in CallBlacklists :
          /\ db = [EmptyDb EXCEPT !.blacklist = blacklist]
          /\ \E cache \in {<<>>, loadFromDb(blacklist)} :
               domainCache = [r \in {"call"} |-> cache]
          /\ \E arg \in AddressInputs : inv = [r \in {"call"} |-> [pc |-> "idle", arg |-> arg]]
     \/ /\ db = InitDb
        /\ domainCache = [r \in {"call"} |-> <<>>]
        /\ \E arg \in HeaderInputs \cup PatternInputs : inv = [r \in {"call"} |-> [pc |-> "idle", arg |-> arg]]
  /\ kv = <<>>
  /\ driver = <<>>
  /\ ret = [r \in {"call"} |-> NoReturn]
  /\ gmail = [a \in Accounts |-> <<>>]
  /\ now = 47
  /\ idgen = 0
  /\ delivered = {}
  /\ redelivered = {}
  /\ lastWindow = [a \in Accounts |-> <<>>]
  /\ events = 0

\* one call of the function named via, which returns result
Call(via, result) ==
  /\ inv["call"].pc = "idle"
  /\ inv' = [inv EXCEPT !["call"].pc = via]
  /\ ret' = [ret EXCEPT !["call"] = Returned(via, NULL, result)]
  /\ UNCHANGED <<driver, db, gmail, now, idgen, domainCache, kv, hist, events>>

CallIsBlacklisted ==
  /\ inv["call"].arg \in AddressInputs
  /\ Call("isBlacklisted", isBlacklisted(domainCache["call"], db.blacklist, inv["call"].arg))

CallIsTransactional ==
  /\ inv["call"].arg \in AddressInputs
  /\ Call("isTransactional", isTransactional(inv["call"].arg))

CallParseEmailHeader ==
  /\ inv["call"].arg \in HeaderInputs
  /\ Call("parseEmailHeader", parseEmailHeader(inv["call"].arg))

CallIsValidEmail ==
  /\ inv["call"].arg \in TokenInputs
  /\ Call("isValidEmail", isValidEmail(inv["call"].arg))

\* TRANSACTIONAL_EMAIL_PATTERNS.some((p) => p.test(email))
CallPatternTable ==
  /\ inv["call"].arg \in PatternInputs
  /\ Call("patterns.some",
          \E k \in 1..Len(TRANSACTIONAL_EMAIL_PATTERNS) :
             test(TRANSACTIONAL_EMAIL_PATTERNS[k], inv["call"].arg))

CallsNext ==
  \/ CallIsBlacklisted
  \/ CallIsTransactional
  \/ CallParseEmailHeader
  \/ CallIsValidEmail
  \/ CallPatternTable

SpecCalls == CallsInit /\ [][CallsNext]_vars

\* the part of an address after its last @, in lower case; NULL when there is none
DomainPart(address) ==
  IF \A i \in 1..Len(address) : charAt(address, i - 1) # "@" THEN NULL
  ELSE LET at == CHOOSE i \in 1..Len(address) :
                    /\ charAt(address, i - 1) = "@"
                    /\ \A j \in (i + 1)..Len(address) : charAt(address, j - 1) # "@"
       IN  IF at = Len(address) THEN NULL
           ELSE toLowerCase(substring(address, at, Len(address)))

\* the blacklist domain set the service consults: its cache when loaded, else the table
DomainSet == IF domainCache["call"] # <<>> THEN domainCache["call"][1] ELSE DOMAIN db.blacklist

\* the function named via has been called on the drawn string
Called(via) == inv["call"].pc = via

(***************************************************************************)
(* C14.  isBlacklisted(address) returns true exactly when                  *)
(* isTransactional(address) is true or the domain of the address is in the *)
(* blacklist domain set; the category under which the domain is stored     *)
(* plays no part.                                                          *)
(***************************************************************************)
C14_BlacklistedIffTransactionalOrListed ==
  Called("isBlacklisted") =>
    ret["call"].result =
      (isTransactional(inv["call"].arg) \/ DomainPart(inv["call"].arg) \in DomainSet)

\* an address that matches no pattern, in mixed case, at a domain stored as spam
C14_Witness ==
  /\ Called("isBlacklisted")
  /\ inv["call"].arg = "Bob@SPAM.IO"
  /\ "spam.io" \in DOMAIN db.blacklist
  /\ db.blacklist["spam.io"].category = "spam"
  /\ ret["call"].result = TRUE


\* at least one pattern of the table matches the address
SomePatternMatches(address) ==
  \E k \in 1..Len(TRANSACTIONAL_EMAIL_PATTERNS) : test(TRANSACTIONAL_EMAIL_PATTERNS[k], address)

Whitelisted(address) ==
  \E k \in 1..Len(WHITELISTED_DOMAINS) : DomainPart(address) = WHITELISTED_DOMAINS[k]

(***************************************************************************)
(* C15 as the claim states it: isTransactional(address) returns false for  *)
(* an address whose domain is in the static whitelist, whatever it         *)
(* matches, and for an address whose domain is not in the whitelist it     *)
(* returns true exactly when at least one pattern matches.                 *)
(* The whitelist test is emailLower.includes('@' + domain), so an address  *)
(* whose domain only begins with a whitelisted domain                      *)
(* (playstation.sony.com.evil.io) is exempted as well, although patterns   *)
(* match it.                                                               *)
(***************************************************************************)
C15_Original ==
  Called("isTransactional") =>
    ret["call"].result =
      IF Whitelisted(inv["call"].arg) THEN FALSE ELSE SomePatternMatches(inv["call"].arg)


\* the references between the entity tables of a store all resolve
ReferencesResolve(d) ==
  /\ \A e \in DOMAIN d.emails :
        /\ d.emails[e].contact_id \in DOMAIN d.contacts
        /\ d.emails[e].domain \in DOMAIN d.domains
  /\ \A c \in DOMAIN d.contacts : d.contacts[c].company_id \in DOMAIN d.companies
  /\ \A m \in DOMAIN d.domains : d.domains[m].company_id \in DOMAIN d.companies

(***************************************************************************)
(* C16.  In every reachable state, also after a failed insert batch, a     *)
(* failed update batch, a crash and a Company delete, every EmailAddress   *)
(* references a stored Contact and a stored Domain, every Contact a stored *)
(* Company and every Domain a stored Company.                              *)
(***************************************************************************)
C16_ReferencesResolve == ReferencesResolve(db)

\* a Company with contacts and addresses has been deleted while another is stored
C16_Witness ==
  /\ "beta.io" \in DOMAIN db.blacklist
  /\ db.blacklist["beta.io"].source = "company-delete"
  /\ "beta.io" \notin DOMAIN db.domains
  /\ "carol@gamma.com" \in DOMAIN db.emails
  /\ "m2" \in DOMAIN db.processed_messages


\* this step is a call of DELETE /api/companies/:id
DeleteStep ==
  /\ ret'["api"] # ret["api"]
  /\ ret'["api"].via = "deleteCompany"

\* the id the route was called with
DeletedId == ret'["api"].result.id

DomainsOfCompany(d, id) == {x \in DOMAIN d.domains : d.domains[x].company_id = id}

ContactsOfCompany(d, id) == {c \in DOMAIN d.contacts : d.contacts[c].company_id = id}

EmailsOfCompany(d, id) ==
  {e \in DOMAIN d.emails : d.emails[e].contact_id \in ContactsOfCompany(d, id)}

(***************************************************************************)
(* C17.  DELETE /api/companies/:id for a stored Company removes the        *)
(* Company, all its Domains, all its Contacts and all EmailAddresses of    *)
(* those Contacts, leaves the rows of the other companies as they were,    *)
(* and leaves each of its domains in the blacklist; for an id that is not  *)
(* the id of a stored Company it answers not-found and changes neither the *)
(* entity tables nor the blacklist.                                        *)
(***************************************************************************)
C17_CompanyDeleteCascades ==
  [][ DeleteStep =>
        IF DeletedId \in DOMAIN db.companies
        THEN /\ ret'["api"].outcome = "returned"
             /\ DOMAIN db'.companies = DOMAIN db.companies \ {DeletedId}
             /\ DOMAIN db'.domains = DOMAIN db.domains \ DomainsOfCompany(db, DeletedId)
             /\ DOMAIN db'.contacts = DOMAIN db.contacts \ ContactsOfCompany(db, DeletedId)
             /\ DOMAIN db'.emails = DOMAIN db.emails \ EmailsOfCompany(db, DeletedId)
             /\ \A k \in DOMAIN db'.companies : db'.companies[k] = db.companies[k]
             /\ \A k \in DOMAIN db'.domains : db'.domains[k] = db.domains[k]
             /\ \A k \in DOMAIN db'.contacts : db'.contacts[k] = db.contacts[k]
             /\ \A k \in DOMAIN db'.emails : db'.emails[k] = db.emails[k]
             /\ DOMAIN db'.blacklist = DOMAIN db.blacklist \cup DomainsOfCompany(db, DeletedId)
             /\ ret'["api"].result.blacklistedDomains = DomainsOfCompany(db, DeletedId)
        ELSE /\ ret'["api"].outcome = "threw"
             /\ ret'["api"].error = "Company not found"
             /\ Entities(db') = Entities(db)
             /\ db'.blacklist = db.blacklist ]_vars

\* the Company of beta.io, with two contacts, has been deleted; gamma.com is still stored
C17_Witness ==
  /\ ret["api"].outcome = "returned"
  /\ ret["api"].result.blacklistedDomains = {"beta.io"}
  /\ "beta.io" \in DOMAIN db.blacklist
  /\ DOMAIN db.domains = {"gamma.com"}
  /\ DOMAIN db.emails = {"carol@gamma.com"}

\* the route has been called with an id that no stored Company has
C17_WitnessNotFound ==
  /\ ret["api"].outcome = "threw"
  /\ ret["api"].error = "Company not found"
  /\ db.companies # EmptyTable


\* what a list of well-formed addresses denotes, in header order
Denoted(parts) ==
  [ i \in 1..Len(parts) |->
      [email |-> parts[i].email, name |-> parts[i].name, domain |-> parts[i].domain] ]

(***************************************************************************)
(* C18.  parseEmailHeader splits a header only at the commas outside       *)
(* double quotes and outside <...>: a header of n well-formed addresses    *)
(* separated by commas gives n results, in header order, each with the     *)
(* address in lower case and its display name; the header                  *)
(* "Smith, John" <john@example.com> gives one result with name Smith, John *)
(* and address john@example.com; and a comma between < and > does not      *)
(* split either.                                                           *)
(***************************************************************************)
C18_SplitsOutsideQuotesAndBrackets ==
  Called("parseEmailHeader") =>
    /\ \A parts \in HeaderParts :
          inv["call"].arg = JoinHeader(parts, 1) => ret["call"].result = Denoted(parts)
    /\ inv["call"].arg = "\"Smith, John\" <john@example.com>" =>
          ret["call"].result = << [email |-> "john@example.com", name |-> "Smith, John",
                                   domain |-> "example.com"] >>
    /\ inv["call"].arg = "<a,b@x.io>, \"c,d\"@y.io" => Len(ret["call"].result) = 2

\* a header of three addresses, the second with a quoted name that holds a comma
C18_Witness ==
  /\ Called("parseEmailHeader")
  /\ inv["call"].arg = "J R <J@B.io>, \"S, J\" <j@e.io>, <bob@c.io>"
  /\ Len(ret["call"].result) = 3
  /\ ret["call"].result[1].email = "j@b.io"
  /\ ret["call"].result[2].name = "S, J"
  /\ ret["call"].result[3].email = "bob@c.io"


\* the positions of the @ characters of a string, counted from 1
AtPositions(str) == {i \in 1..Len(str) : charAt(str, i - 1) = "@"}

\* exactly one @, at least one character on each side of it, and a dot after it
ValidAsStated(str) ==
  /\ Cardinality(AtPositions(str)) = 1
  /\ \A at \in AtPositions(str) :
        /\ at > 1
        /\ at < Len(str)
        /\ \E j \in (at + 1)..Len(str) : charAt(str, j - 1) = "."

(***************************************************************************)
(* C19 as the claim states it: a token is accepted exactly when it holds   *)
(* exactly one @ with at least one character before and after it and a dot *)
(* in the part after it; every other token is dropped, so a header without *)
(* such a token gives the empty list.                                      *)
(* isValidEmail looks at the first @ only (email.indexOf('@')) and         *)
(* extractDomain at the last, so a token with two @ such as a@b@c.io is    *)
(* accepted, with domain c.io.                                             *)
(***************************************************************************)
C19_Original ==
  /\ Called("isValidEmail") => ret["call"].result = ValidAsStated(inv["call"].arg)
  /\ (Called("parseEmailHeader") /\ inv["call"].arg \in TokenInputs) =>
        (ret["call"].result # <<>>) = ValidAsStated(inv["call"].arg)
  /\ (Called("parseEmailHeader")
        /\ inv["call"].arg \in {"", "not-an-email", " , ,", "nobody, x@, @acme.com, john@acme",
                                "John <john@>"}) =>
        ret["call"].result = <<>>


\* the drawn address is name@domain
IsAddress(name, domain) == inv["call"].arg = name \o "@" \o domain

(***************************************************************************)
(* C20 as the claim states it: the pattern table matches, whatever the     *)
(* case, every address whose local part is one of the system names at a    *)
(* two-label domain, and no address whose local part is an ordinary name   *)
(* at a two-label domain.                                                  *)
(* The table holds /\.edu$/i, which matches every address at a two-label   *)
(* domain under edu, john@mit.edu included.                                *)
(***************************************************************************)
C20_Original ==
  Called("patterns.some") =>
    /\ \A name \in SystemNames, domain \in TwoLabelDomains :
          IsAddress(name, domain) => ret["call"].result = TRUE
    /\ \A name \in OrdinaryNames, domain \in TwoLabelDomains :
          IsAddress(name, domain) => ret["call"].result = FALSE

(***************************************************************************)
(* C20, amended.  The pattern table matches, whatever the case, every      *)
(* address whose local part is one of the system names at a two-label      *)
(* domain; it matches no address whose local part is an ordinary name at a *)
(* two-label domain that does not end in .edu, and it matches every        *)
(* address at a domain that ends in .edu.                                  *)
(***************************************************************************)
C20_PatternTable ==
  Called("patterns.some") =>
    /\ \A name \in SystemNames, domain \in TwoLabelDomains :
          IsAddress(name, domain) => ret["call"].result = TRUE
    /\ \A name \in OrdinaryNames, domain \in TwoLabelDomains :
          IsAddress(name, domain) =>
             ret["call"].result = endsWith(toLowerCase(domain), ".edu")

\* a system name in upper case at a two-label domain has been tried and is matched
C20_Witness ==
  /\ Called("patterns.some")
  /\ inv["call"].arg = "NOREPLY@Example.COM"
  /\ ret["call"].result = TRUE

\* an ordinary name at a two-label domain outside edu has been tried and is not matched
C20_WitnessOrdinary ==
  /\ Called("patterns.some")
  /\ inv["call"].arg = "john.smith@company.com"
  /\ ret["call"].result = FALSE


(***************************************************************************)
(* C21 as the claim states it: in batchSync and in incrementalSync the     *)
(* ProcessedMessage row of a message is written before its insert batch    *)
(* and its update batch are committed, so whenever a loop iteration has    *)
(* committed a batch of a message, the message has its ProcessedMessage    *)
(* row.                                                                    *)
(* incrementalSync calls markMessageProcessed after processMessage has     *)
(* returned: when that INSERT fails, both batches of the message are       *)
(* stored and the message has no row.                                      *)
(***************************************************************************)
C21_Original ==
  [][ \A r \in Runners :
        (MessageStep(r) /\ inv[r].pc \in {"batch", "incr"} /\ Entities(db') # Entities(db))
           => isMessageProcessed(db', CurrentId(r)) ]_vars

(***************************************************************************)
(* The batch cursor of an account: the day, the page token and the page    *)
(* number its SyncState row holds, the day read as batchSync reads it.     *)
(***************************************************************************)
BatchCursor(d, a) ==
  [ batch_current_date |-> getSyncState(d, a).batch_current_date,
    batch_page_token |-> getSyncState(d, a).batch_page_token,
    batch_page_number |-> getSyncState(d, a).batch_page_number ]

\* the page the provider lists for the stored cursor
CursorListing(d, a) ==
  listMessages(gmail[a], <<BatchDay(d, a), addDays(BatchDay(d, a), 1)>>,
               getSyncState(d, a).batch_page_token, PageSize)

\* batchSync finds the account caught up
CaughtUp(d, a) == LexLess(isoDay(now), BatchDay(d, a))

(***************************************************************************)
(* C22: a batchSync invocation that is not caught up and does not abort    *)
(* writes SyncState once, at its end.  When the listing is empty, or is    *)
(* not empty and carries no next page token, the row holds the next day,   *)
(* no page token and page number 0; when the listing is not empty and      *)
(* carries a next page token, the row holds the same day, that token and   *)
(* the page number plus one.  The entry with a listing that is not empty   *)
(* and the loop iterations write no SyncState.                             *)
(***************************************************************************)
C22_BatchSyncWritesOneCursor ==
  [][ \A r \in Runners :
        LET a         == inv[r].account
            listing   == CursorListing(db, a)
            advanced  == [ batch_current_date |-> DayAfter(BatchDay(db, a)),
                           batch_page_token |-> <<>>, batch_page_number |-> 0 ]
            continued == [ batch_current_date |-> BatchDay(db, a),
                           batch_page_token |-> listing.nextPageToken,
                           batch_page_number |-> getSyncState(db, a).batch_page_number + 1 ]
        IN  /\ (BatchSyncStart(r) /\ ~CaughtUp(db, a)) =>
                  IF listing.messages = <<>>
                  THEN /\ BatchCursor(db', a) = advanced
                       /\ ret'[r].outcome = "returned"
                       /\ inv'[r].pc = "idle"
                  ELSE /\ db' = db
                       /\ inv'[r].pc = "batch"
            /\ BatchSyncMessage(r) => db'.sync_state = db.sync_state
            /\ BatchSyncPageDone(r) =>
                  /\ listing.messages # <<>>
                  /\ BatchCursor(db', a) = IF listing.nextPageToken = <<>> THEN advanced ELSE continued
                  /\ ret'[r].outcome = "returned" ]_vars

\* a batchSync call has returned after a page with a next page token
C22_Witness ==
  /\ ret["cron"].outcome = "returned"
  /\ ret["cron"].via = "batchSync"
  /\ BatchCursor(db, "work") =
       [batch_current_date |-> <<2000, 1, 1>>, batch_page_token |-> <<PageSize>>, batch_page_number |-> 1]

\* a batchSync call has returned after the last page of a day
C22_WitnessAdvanced ==
  /\ ret["cron"].outcome = "returned"
  /\ ret["cron"].via = "batchSync"
  /\ ret["cron"].result.messagesProcessed > 0
  /\ BatchCursor(db, "work") =
       [batch_current_date |-> <<2000, 1, 2>>, batch_page_token |-> <<>>, batch_page_number |-> 0]

\* a batchSync call has returned at once from a day without messages
C22_WitnessEmpty ==
  /\ ret["cron"].outcome = "returned"
  /\ ret["cron"].via = "batchSync"
  /\ ret["cron"].result.hasMore = FALSE
  /\ BatchCursor(db, "work") =
       [batch_current_date |-> <<2000, 1, 3>>, batch_page_token |-> <<>>, batch_page_number |-> 0]

(***************************************************************************)
(* C23 as the claim states it: when the fetch of a listed message still    *)
(* fails after the retries of the adapter, batchSync records the failure   *)
(* under the message id in errors and goes on with the rest of the page,   *)
(* so when the page cursor is written every message of the listed page     *)
(* has a ProcessedMessage row or an entry in errors.                       *)
(* batchGetMessages catches the rejected getMessage call, logs it and      *)
(* leaves the message out of its result: the loop of batchSync never sees  *)
(* the id, and the cursor moves past it.                                   *)
(***************************************************************************)
C23_Original ==
  [][ \A r \in Runners :
        BatchSyncPageDone(r) =>
           \A id \in Range(CursorListing(db, inv[r].account).messages) :
              \/ isMessageProcessed(db', id)
              \/ id \in Range(ret'[r].result.errors) ]_vars

(***************************************************************************)
(* Store failures during a page of batchSync.                              *)
(***************************************************************************)
\* this step is a store call of runner r's batchSync page that fails: one
\* inside processMessage, or one of batchSync itself
StoreFailure(r) ==
  /\ inv[r].pc = "batch"
  /\ \/ Failed(r)
     \/ /\ inv'[r].pc = "idle"
        /\ events' # events
        /\ ret'[r].outcome # "crashed"

\* the page the invocation of runner r has listed
ListedPage(r) ==
  listMessages(gmail[inv[r].account], lastWindow[inv[r].account], inv[r].pageToken, PageSize)

\* the invocation ends with the error and leaves the batch cursor as it
\* found it, so that the next invocation lists the same page
AbortsCleanly(r) ==
  /\ ret'[r].outcome = "threw"
  /\ ret'[r].via = "batchSync"
  /\ ret'[r].error = StoreError
  /\ inv'[r].pc = "idle"
  /\ BatchCursor(db', inv[r].account) = BatchCursor(db, inv[r].account)
  /\ getSyncState(db', inv[r].account).batch_page_token = inv[r].pageToken
  /\ CursorListing(db', inv[r].account) = ListedPage(r)

(***************************************************************************)
(* C24 as the claim states it: when a store operation fails while          *)
(* batchSync is processing a page, the invocation aborts with the error,   *)
(* SyncState keeps the day, page token and page number it had before the   *)
(* invocation, and the next invocation lists the same page.                *)
(* A failure of a store call inside processMessage is caught by the try    *)
(* block of the loop: the invocation goes on and advances the cursor.      *)
(***************************************************************************)
C24_Original ==
  [][ \A r \in Runners : StoreFailure(r) => AbortsCleanly(r) ]_vars

(***************************************************************************)
(* C24, restated: when a store call of batchSync itself fails while it is  *)
(* processing a page (the ProcessedMessage lookup or write of a loop       *)
(* iteration, or the SyncState write after the loop), the invocation       *)
(* aborts with the error, SyncState keeps the day, page token and page     *)
(* number it had before the invocation, and the next invocation lists the  *)
(* same page.  A failure of a store call inside processMessage does not    *)
(* abort the invocation: it is recorded in errors and the page goes on.    *)
(***************************************************************************)
C24_PageLevelFailureAborts ==
  [][ \A r \in Runners :
        /\ (StoreFailure(r) /\ ~Failed(r)) => AbortsCleanly(r)
        /\ (StoreFailure(r) /\ Failed(r)) =>
              /\ ret'[r].outcome = "running"
              /\ inv'[r].pc = "batch"
              /\ inv'[r].result.errors = Append(inv[r].result.errors, CurrentId(r)) ]_vars

\* batchSync has aborted on the second message of a page, after the first was committed
C24_Witness ==
  /\ ret["cron"].outcome = "threw"
  /\ ret["cron"].via = "batchSync"
  /\ ret["cron"].error = StoreError
  /\ inv["cron"].pc = "idle"
  /\ DOMAIN db.processed_messages = {"m3"}
  /\ "work" \notin DOMAIN db.sync_state

\* batchSync has gone on after a failed store call of processMessage and has written the cursor
C24_WitnessCaught ==
  /\ ret["cron"].outcome = "returned"
  /\ ret["cron"].via = "batchSync"
  /\ ret["cron"].result.errors # <<>>
  /\ "work" \in DOMAIN db.sync_state

(***************************************************************************)
(* C25: every SyncState write of batchSync stores, as last_history_id, the *)
(* historyId of the profile it fetched at its start.  So a row that holds  *)
(* a batch day holds a last_history_id, and an incrementalSync call on an  *)
(* account whose batch day is after today asks the provider for the        *)
(* history since that id and does not delegate to fullSync.                *)
(***************************************************************************)
C25_BatchSyncStoresCursor ==
  [][ \A r \in Runners :
        LET a == inv[r].account
        IN  /\ (BatchSyncStart(r) /\ inv'[r].pc = "batch") => inv'[r].profile = getProfile(gmail[a])
            /\ (BatchSyncStart(r) /\ db'.sync_state # db.sync_state) =>
                  getSyncState(db', a).last_history_id = <<getProfile(gmail[a])>>
            /\ BatchSyncPageDone(r) =>
                  /\ db'.sync_state # db.sync_state
                  /\ getSyncState(db', a).last_history_id = <<inv[r].profile>>
            /\ getSyncState(db', a).batch_current_date # <<>> =>
                  getSyncState(db', a).last_history_id # <<>>
            /\ (IncrementalSyncStart(r) /\ getSyncState(db, a).batch_current_date # <<>>
                                        /\ CaughtUp(db, a)) =>
                  /\ inv'[r].pc = "history"
                  /\ <<inv'[r].startHistoryId>> = getSyncState(db, a).last_history_id
                  /\ ret'[r].via = "incrementalSync" ]_vars

\* batchSync has moved the batch day past today, and incrementalSync is about
\* to ask for the history since the cursor batchSync stored
C25_Witness ==
  /\ inv["cron"].pc = "history"
  /\ getSyncState(db, "work").batch_current_date # <<>>
  /\ CaughtUp(db, "work")
  /\ <<inv["cron"].startHistoryId>> = getSyncState(db, "work").last_history_id
  /\ inv["cron"].startHistoryId = Len(InitialLog)

(***************************************************************************)
(* C26: an incrementalSync call that pulls history writes last_history_id  *)
(* once, in the step in which it returns: after the last history page has  *)
(* been pulled and every added message of every page has been handled      *)
(* (it has a ProcessedMessage row or an entry in errors), and the value    *)
(* is the historyId of the last history response.  Every other step of     *)
(* the call, the one in which it ends with an error included, leaves       *)
(* SyncState as it is, with the last_history_id the call started from.     *)
(***************************************************************************)
C26_CursorWrittenOnceAtEnd ==
  [][ \A r \in Runners :
        LET a == inv[r].account
            added == SubSeq(gmail[a], inv[r].startHistoryId + 1, Len(gmail[a]))
        IN  inv[r].pc \in {"history", "incr"} =>
              IF inv'[r].pc = "idle" /\ ret'[r].outcome = "returned"
              THEN /\ inv[r].pc = "incr"
                   /\ inv[r].idx > Len(inv[r].messages)
                   /\ inv[r].nextPageToken = <<>>
                   /\ getSyncState(db', a).last_history_id =
                        <<getHistory(gmail[a], inv[r].startHistoryId, inv[r].pageToken).historyId>>
                   /\ BatchCursor(db', a) = BatchCursor(db, a)
                   /\ \A id \in Range(added) :
                         isMessageProcessed(db', id) \/ id \in Range(ret'[r].result.errors)
              ELSE /\ db'.sync_state = db.sync_state
                   /\ getSyncState(db', a).last_history_id = <<inv[r].startHistoryId>> ]_vars

\* incrementalSync has returned after two history pages with one added message each
C26_Witness ==
  /\ ret["cron"].outcome = "returned"
  /\ ret["cron"].via = "incrementalSync"
  /\ ret["cron"].caught = NULL
  /\ ret["cron"].result.messagesProcessed = 2
  /\ getSyncState(db, "work").last_history_id = <<Len(InitialLog) + 2>>
  /\ {"m5", "m6"} \subseteq DOMAIN db.processed_messages

\* incrementalSync has ended with a provider error and the cursor is the one it started from
C26_WitnessError ==
  /\ ret["cron"].outcome = "threw"
  /\ ret["cron"].via = "incrementalSync"
  /\ getSyncState(db, "work").last_history_id = <<Len(InitialLog)>>
  /\ Len(gmail["work"]) > Len(InitialLog)

(***************************************************************************)
(* C27 as the claim states it: a loop iteration over a message leaves the  *)
(* entity tables either as they were (rolled back) or as the whole commit  *)
(* of the message makes them (every insert and every counter update); no   *)
(* failure of a store call leaves some of them in the store and others     *)
(* missing.                                                                *)
(* processMessage submits two batches, the inserts and then the updates:   *)
(* when the second fails the rows of the first stay, with counters 0 and   *)
(* first_seen and last_seen null.                                          *)
(***************************************************************************)
C27_Original ==
  [][ \A r \in Runners :
        MessageStep(r) =>
           \/ Entities(db') = Entities(db)
           \/ Entities(db') =
                Entities(processMessage(db, domainCache[r], Catalog[CurrentId(r)],
                                        MyEmail[inv[r].account], idgen, "none").db) ]_vars

(***************************************************************************)
(* Display names.                                                          *)
(***************************************************************************)
\* the counted addresses of the message of runner r's loop iteration, as
\* processMessage parses and filters them
Shown(r) ==
  Plan(db, domainCache[r], Catalog[CurrentId(r)], MyEmail[inv[r].account], idgen).validEmails

(***************************************************************************)
(* C28 as the claim states it: name_observed of an EmailAddress is set,    *)
(* when the row is created, to the display name of the first occurrence    *)
(* of the address in the message; while it is null, a committed message    *)
(* that shows the address with a display name sets it to that name; once   *)
(* it is not null no message changes it.                                   *)
(* The update batch of processMessage has no statement that writes         *)
(* name_observed: a row created without a display name keeps null.         *)
(***************************************************************************)
C28_Original ==
  [][ \A r \in Runners :
        Committed(r) =>
           \A i \in 1..Len(Shown(r)) :
              LET e == Shown(r)[i].email
              IN  /\ e \in DOMAIN db'.emails
                  /\ IF e \notin DOMAIN db.emails
                     THEN db'.emails[e].name_observed = FirstWithEmail(Shown(r), e).name
                     ELSE IF db.emails[e].name_observed # NULL
                     THEN db'.emails[e].name_observed = db.emails[e].name_observed
                     ELSE Shown(r)[i].name # NULL =>
                            \E j \in 1..Len(Shown(r)) :
                               /\ Shown(r)[j].email = e
                               /\ Shown(r)[j].name # NULL
                               /\ db'.emails[e].name_observed = Shown(r)[j].name ]_vars

\* the Contact of a stored address
ContactOf(d, e) == d.emails[e].contact_id

\* the display names the message of plan p shows for an address of contact c
NamesShown(d, p, c) ==
  { p.validEmails[i].name :
      i \in { k \in 1..Len(p.validEmails) :
                /\ p.validEmails[k].name # NULL
                /\ p.validEmails[k].email \in DOMAIN d.emails
                /\ ContactOf(d, p.validEmails[k].email) = c } }

(***************************************************************************)
(* C29: the name of a Contact is written only while it is null.  No step   *)
(* changes a stored name that is not null; a name that was null is set     *)
(* only by the update batch of a message, to a display name that message   *)
(* shows for an address of the Contact; and the update batch of a message  *)
(* that shows such a name for a Contact whose stored name is null sets     *)
(* it.  This holds when the loops of two accounts handle messages of the   *)
(* same Contact at the same time, each with the name it read before the    *)
(* other's update.                                                         *)
(***************************************************************************)
C29_ContactNameWriteOnce ==
  [][ \A c \in DOMAIN db.contacts \cap DOMAIN db'.contacts :
        /\ db.contacts[c].name # NULL => db'.contacts[c].name = db.contacts[c].name
        /\ (db.contacts[c].name = NULL /\ db'.contacts[c].name # NULL) =>
              \E r \in Runners :
                 /\ inv[r].pc = "update"
                 /\ inv'[r].pc = "lookup"
                 /\ db'.contacts[c].name \in NamesShown(db, inv[r].plan, c)
        /\ \A r \in Runners :
              (inv[r].pc = "update" /\ inv'[r].pc = "lookup" /\ db.contacts[c].name = NULL
                 /\ NamesShown(db, inv[r].plan, c) # {})
                 => db'.contacts[c].name \in NamesShown(db, inv[r].plan, c) ]_vars

\* the work loop has set the name of jane@beta.io's Contact from m1 while the
\* personal loop holds the update batch of m6, staged when the name was null
C29_Witness ==
  /\ inv["personal"].pc = "update"
  /\ inv["personal"].messages[inv["personal"].idx] = "m6"
  /\ inv["personal"].plan.emailToContact["jane@beta.io"].contactName = NULL
  /\ inv["work"].idx = 2
  /\ db.contacts[ContactOf(db, "jane@beta.io")].name = "Jane Roe"

\* both loops have ended without an error and the name is the one of m6
C29_WitnessOtherOrder ==
  /\ RaceDone
  /\ inv["work"].messages = <<"m1">>
  /\ inv["personal"].messages = <<"m2", "m6">>
  /\ inv["work"].result.errors = <<>>
  /\ inv["personal"].result.errors = <<>>
  /\ db.contacts[ContactOf(db, "jane@beta.io")].name = "J Roe"

(***************************************************************************)
(* ContactRepository.updateStatsAndThread and                              *)
(* EmailRepository.updateStatsAndThread called by the sync runs of two     *)
(* accounts (the scheduled handler runs them in parallel) for a message    *)
(* each from jane@beta.io.  A call is two awaited statements: the SELECT   *)
(* of recent_threads, then the UPDATE that adds to the counters in SQL     *)
(* and binds the list computed from what the SELECT returned.              *)
(***************************************************************************)
\* the reference a caller adds
ThreadReference(threadId, account, at) ==
  [threadId |-> threadId, account |-> account, timestamp |-> toISOString(at)]

\* the lists the two rows may hold when the calls start
StoredThreadLists ==
  { <<>>, <<ThreadReference(3, "work", 33)>>,
    <<ThreadReference(1, "personal", 44), ThreadReference(3, "work", 33)>> }

\* the threadId of the message of each account
ThreadChoices == [work : {1, 2}, personal : {2, 3}]

\* a call before its SELECT
Pending == [pc |-> "select", capped |-> <<>>]

ThreadCaller(account, threadId) ==
  [ pc |-> "threads", account |-> account, thread |-> ThreadReference(threadId, account, 47),
    contact |-> Pending, email |-> Pending ]

ThreadsRaceInit ==
  /\ \E stored \in StoredThreadLists :
       db = [ ThreadsDb EXCEPT !.contacts[2].recent_threads = stored,
                               !.emails["jane@beta.io"].recent_threads = stored ]
  /\ gmail = [a \in Accounts |-> <<>>]
  /\ now = 47
  /\ idgen = 0
  /\ \E ids \in ThreadChoices :
       inv = [a \in {"work", "personal"} |-> ThreadCaller(a, ids[a])]
  /\ domainCache = [a \in {"work", "personal"} |-> <<>>]
  /\ kv = <<>>
  /\ driver = <<>>
  /\ ret = [a \in {"work", "personal"} |-> NoReturn]
  /\ delivered = {}
  /\ redelivered = {}
  /\ lastWindow = [a \in Accounts |-> <<>>]
  /\ events = 0

\* the row a call is about
ThreadRow(d, target) ==
  IF target = "contact" THEN d.contacts[2] ELSE d.emails["jane@beta.io"]

\* SELECT recent_threads ..., JSON.parse, findIndex / splice / unshift / slice
ThreadSelect(r, target) ==
  /\ inv[r][target].pc = "select"
  /\ inv' = [inv EXCEPT ![r][target] =
               [pc |-> "update",
                capped |-> recentThreads(ThreadRow(db, target).recent_threads, inv[r].thread)]]
  /\ UNCHANGED <<driver, db, gmail, now, idgen, domainCache, kv, ret, hist, events>>

\* UPDATE ... SET emails_from = emails_from + ?, ..., recent_threads = ? WHERE key = ?
ThreadUpdate(r, target) ==
  /\ inv[r][target].pc = "update"
  /\ \E stats \in {[emails_to |-> 0, emails_from |-> 1, emails_included |-> 0,
                     seen |-> toISOString(now)]} :
       db' = IF target = "contact"
             THEN [db EXCEPT !.contacts[2] =
                     [UpdateStatsRow(@, stats, stats.seen) EXCEPT
                        !.recent_threads = inv[r][target].capped]]
             ELSE [db EXCEPT !.emails["jane@beta.io"] =
                     [UpdateStatsRow(@, stats, stats.seen) EXCEPT
                        !.recent_threads = inv[r][target].capped]]
  /\ inv' = [inv EXCEPT ![r][target].pc = "done"]
  /\ UNCHANGED <<driver, gmail, now, idgen, domainCache, kv, ret, hist, events>>

ThreadsRaceNext ==
  \E r \in {"work", "personal"} : \E target \in {"contact", "email"} :
     \/ ThreadSelect(r, target)
     \/ ThreadUpdate(r, target)

SpecThreadsRace == ThreadsRaceInit /\ [][ThreadsRaceNext]_vars

\* every call has run its UPDATE
CallsDone ==
  \A r \in {"work", "personal"} : inv[r].contact.pc = "done" /\ inv[r].email.pc = "done"

(***************************************************************************)
(* C30 as the claim states it: the read-modify-write of recent_threads is  *)
(* serialized per row, so when two callers have added references with      *)
(* different threadIds to the same Contact and the same EmailAddress, both  *)
(* references are in the list of each row.                                  *)
(* The SELECT and the UPDATE of a call are two statements with no           *)
(* transaction or lock around them: when both callers read before either    *)
(* writes, the later UPDATE binds a list without the other's reference.     *)
(***************************************************************************)
C30_Original ==
  (CallsDone /\ inv["work"].thread.threadId # inv["personal"].thread.threadId)
     => \A target \in {"contact", "email"} :
           {inv["work"].thread.threadId, inv["personal"].thread.threadId}
              \subseteq ThreadIds(ThreadRow(db, target).recent_threads)

(***************************************************************************)
(* Two invocations for the same account that overlap: the scheduled run    *)
(* ("cron") and POST /api/sync/trigger ("api") each construct a            *)
(* SyncService for the work account and call batchSync.  Each loop         *)
(* iteration is three awaited calls, between which the other invocation    *)
(* runs: the SELECT of isMessageProcessed, the INSERT OR IGNORE of         *)
(* markMessageProcessed, and processMessage.                               *)
(***************************************************************************)
\* the SyncState the invocations find: no row, the second page of the first
\* day, the second day
OverlapCursors ==
  { InitDb,
    updateSyncStateWithDate(InitDb, "work", 4, <<2000, 1, 1>>, <<PageSize>>, 1),
    updateSyncStateWithDate(InitDb, "work", 4, <<2000, 1, 2>>, <<>>, 0) }

OverlapInit ==
  /\ db \in OverlapCursors
  /\ gmail = [a \in Accounts |-> InitialLog]
  /\ now = 47
  /\ idgen = 0
  /\ inv = [r \in {"cron", "api"} |-> Idle("work")]
  /\ domainCache = [r \in {"cron", "api"} |-> <<>>]
  /\ kv = <<>>
  /\ driver = <<>>
  /\ ret = [r \in {"cron", "api"} |-> NoReturn]
  /\ delivered = {}
  /\ redelivered = {}
  /\ lastWindow = [a \in Accounts |-> <<>>]
  /\ events = 0

\* the one batchSync call of an invocation, to the head of its loop
OverlapCall(r) ==
  /\ ret[r].outcome = "none"
  /\ BatchSyncStart(r)

\* const isProcessed = await this.isMessageProcessed(message.id); continue if so
OverlapCheck(r) ==
  /\ inv[r].pc = "batch"
  /\ inv[r].idx <= Len(inv[r].messages)
  /\ delivered' = delivered \cup {inv[r].messages[inv[r].idx]}
  /\ redelivered' = IF inv[r].messages[inv[r].idx] \in delivered
                    THEN redelivered \cup {inv[r].messages[inv[r].idx]} ELSE redelivered
  /\ inv' = IF isMessageProcessed(db, inv[r].messages[inv[r].idx])
            THEN [inv EXCEPT ![r].idx = @ + 1]
            ELSE [inv EXCEPT ![r].pc = "mark"]
  /\ UNCHANGED <<driver, db, gmail, now, idgen, domainCache, kv, ret, lastWindow, events>>

\* await this.markMessageProcessed(message.id)
OverlapMark(r) ==
  /\ inv[r].pc = "mark"
  /\ db' = markMessageProcessed(db, inv[r].account, inv[r].messages[inv[r].idx])
  /\ inv' = [inv EXCEPT ![r].pc = "process"]
  /\ UNCHANGED <<driver, gmail, now, idgen, domainCache, kv, ret, hist, events>>

\* the try block: processMessage and the tally of its counts
OverlapProcess(r) ==
  /\ inv[r].pc = "process"
  /\ \E p \in {processMessage(db, domainCache[r], Catalog[inv[r].messages[inv[r].idx]],
                              MyEmail[inv[r].account], idgen, "none")} :
       /\ db' = p.db
       /\ idgen' = idgen + p.ids
       /\ inv' = [inv EXCEPT ![r].pc = "batch", ![r].idx = @ + 1,
                             ![r].result = Tally(@, inv[r].messages[inv[r].idx], p)]
  /\ UNCHANGED <<driver, gmail, now, domainCache, kv, ret, hist, events>>

OverlapNext ==
  \E r \in {"cron", "api"} :
     \/ OverlapCall(r)
     \/ OverlapCheck(r)
     \/ OverlapMark(r)
     \/ OverlapProcess(r)
     \/ BatchSyncPageDone(r)

SpecOverlap == OverlapInit /\ [][OverlapNext]_vars

\* the store after each message of the mailbox has been processed once
ProcessedOnce == SequentialRun(InitDb, "work", InitialLog, 1, 0)

(***************************************************************************)
(* C31 as the claim states it: when two invocations for the same account   *)
(* overlap, the check of processed_messages followed by the mark lets at   *)
(* most one of them run processMessage for a message, so the counters of   *)
(* no EmailAddress, Contact, Domain or Company exceed what each message    *)
(* of the mailbox gives when it is processed once.                         *)
(* The SELECT and the INSERT OR IGNORE are two statements: when both       *)
(* invocations have run the SELECT for a message before either INSERT,     *)
(* both go on, the second INSERT is ignored without a sign, and both run   *)
(* processMessage: the deltas of the message are applied twice.            *)
(***************************************************************************)
C31_Original ==
  /\ \A e \in DOMAIN db.emails :
        \A f \in CounterFields :
           /\ db.emails[e][f] <= ProcessedOnce.emails[e][f]
           /\ db.contacts[db.emails[e].contact_id][f]
                <= ProcessedOnce.contacts[ProcessedOnce.emails[e].contact_id][f]
  /\ \A m \in DOMAIN db.domains :
        \A f \in CounterFields :
           /\ db.domains[m][f] <= ProcessedOnce.domains[m][f]
           /\ db.companies[db.domains[m].company_id][f]
                <= ProcessedOnce.companies[ProcessedOnce.domains[m].company_id][f]

(***************************************************************************)
(* services/blacklist.ts : the BlacklistService instances of two           *)
(* SyncServices (the scheduled run's and the trigger route's), both        *)
(* constructed with the KV namespace, over one blacklist table.  An        *)
(* instance is called with loadCache, add, remove and clearCache; a day    *)
(* may pass between calls.                                                 *)
(***************************************************************************)
\* the domains add and remove are called with
InstanceDomains == {"Beta.IO", "beta.io", "spam.io"}

InstancesInit ==
  /\ db = InitDb
  /\ gmail = [a \in Accounts |-> <<>>]
  /\ now = 47
  /\ idgen = 0
  /\ inv = [r \in {"cron", "api"} |-> Idle("work")]
  /\ domainCache = [r \in {"cron", "api"} |-> <<>>]
  /\ kv = <<>>
  /\ driver = <<>>
  /\ ret = [r \in {"cron", "api"} |-> NoReturn]
  /\ delivered = {}
  /\ redelivered = {}
  /\ lastWindow = [a \in Accounts |-> <<>>]
  /\ events = 0

\* where a loadCache call that fills the cache takes the domains from
LoadedFrom(kvStore, blacklist, today) ==
  IF loadCache(<<>>, kvStore, blacklist, today)[2] = kvStore /\ kvStore # <<>> THEN "kv" ELSE "db"

\* await this.blacklist.loadCache()
InstanceLoadCache(r) ==
  /\ domainCache' = [domainCache EXCEPT ![r] = loadCache(@, kv, db.blacklist, isoDay(now))[1]]
  /\ kv' = loadCache(domainCache[r], kv, db.blacklist, isoDay(now))[2]
  /\ ret' = IF domainCache[r] # <<>> THEN ret
            ELSE [ret EXCEPT ![r] =
                    Returned("loadCache", NULL, [source |-> LoadedFrom(kv, db.blacklist, isoDay(now))])]
  /\ UNCHANGED <<driver, db, gmail, now, idgen, inv, hist, events>>

\* clearCache(), or the construction of the instance of the next invocation
InstanceClearCache(r) ==
  /\ domainCache[r] # <<>>
  /\ domainCache' = [domainCache EXCEPT ![r] = <<>>]
  /\ ret' = [ret EXCEPT ![r] = NoReturn]
  /\ UNCHANGED <<driver, db, gmail, now, idgen, inv, kv, hist, events>>

\* await instance.add(domain, 'manual', 'api')
InstanceAdd(r, domain) ==
  /\ db' = [db EXCEPT !.blacklist = add(@, domainCache[r], domain, "manual", "api")[1]]
  /\ domainCache' = [domainCache EXCEPT ![r] = add(db.blacklist, @, domain, "manual", "api")[2]]
  /\ UNCHANGED <<driver, gmail, now, idgen, inv, kv, ret, hist, events>>

\* await instance.remove(domain)
InstanceRemove(r, domain) ==
  /\ db' = [db EXCEPT !.blacklist = remove(@, domainCache[r], domain)[1]]
  /\ domainCache' = [domainCache EXCEPT ![r] = remove(db.blacklist, @, domain)[2]]
  /\ UNCHANGED <<driver, gmail, now, idgen, inv, kv, ret, hist, events>>

InstancesNext ==
  \/ \E r \in {"cron", "api"} : InstanceLoadCache(r)
  \/ \E r \in {"cron", "api"} : InstanceClearCache(r)
  \/ \E r \in {"cron", "api"} : \E domain \in InstanceDomains : InstanceAdd(r, domain)
  \/ \E r \in {"cron", "api"} : \E domain \in InstanceDomains : InstanceRemove(r, domain)
  \/ Tick

SpecInstances == InstancesInit /\ [][InstancesNext]_vars

(***************************************************************************)
(* C32 as the claim states it: a loadCache call that fills the cache       *)
(* leaves in it the set of domains the blacklist table holds at the load,  *)
(* also when the domains come from the copy in the KV namespace.           *)
(* The copy is taken when its date is today and its count is the row count  *)
(* of the table; a table from which one domain has been removed and to     *)
(* which another has been added since the copy was put has the same count, *)
(* and the cache is filled with the domains of the copy.                   *)
(***************************************************************************)
C32_Original ==
  [][ \A r \in {"cron", "api"} :
        (InstanceLoadCache(r) /\ domainCache[r] = <<>>)
           => domainCache'[r] = <<DOMAIN db.blacklist>> ]_vars

\* after a call with the domain, the instance answers isDomainBlacklisted(domain)
\* with answer, and its cache, when loaded, holds the domain as the table does
AnswersAfter(r, domain, answer) ==
  /\ isDomainBlacklisted(domainCache'[r], db'.blacklist, domain) = answer
  /\ domainCache'[r] # <<>>
       => (lower(domain) \in domainCache'[r][1] <=> lower(domain) \in DOMAIN db'.blacklist)

(***************************************************************************)
(* C40.  On a BlacklistService instance, isDomainBlacklisted(d) is true    *)
(* after add(d, category, source) and false after remove(d), with the      *)
(* cache of the instance loaded or not, loaded from the table or from the  *)
(* copy in the KV namespace, and with d in upper or lower case; a loaded   *)
(* cache holds the domain of the call exactly when the table does.         *)
(***************************************************************************)
C40_AddAndRemoveReachTheCache ==
  [][ \A r \in {"cron", "api"} : \A domain \in InstanceDomains :
        /\ InstanceAdd(r, domain) => AnswersAfter(r, domain, TRUE)
        /\ InstanceRemove(r, domain) => AnswersAfter(r, domain, FALSE) ]_vars

\* the cache of an instance, loaded from the table while it held spam.io and
\* not beta.io, has followed the add of beta.io and the remove of spam.io
C40_Witness ==
  /\ domainCache["cron"] = <<{"beta.io", "gmail.com"}>>
  /\ domainCache["api"] = <<>>
  /\ ret["cron"].via = "loadCache"
  /\ ret["cron"].result.source = "db"
  /\ kv = <<[domains |-> {"spam.io", "gmail.com"}, count |-> 2, date |-> isoDay(now)]>>
  /\ DOMAIN db.blacklist = {"beta.io", "gmail.com"}
  /\ db.blacklist["beta.io"].source = "api"

\* add and remove have been called on an instance whose cache is not loaded
C40_WitnessNotLoaded ==
  /\ domainCache["cron"] = <<>>
  /\ domainCache["api"] = <<>>
  /\ kv = <<>>
  /\ DOMAIN db.blacklist = {"beta.io", "gmail.com"}

\* runner r enters batchSync, fullSync or incrementalSync
SyncInvoked(r) == BatchSyncStart(r) \/ FullSyncStart(r) \/ IncrementalSyncStart(r)

(***************************************************************************)
(* C33 as the claim states it: every batchSync, fullSync and               *)
(* incrementalSync invocation starts with a cache that holds the domains   *)
(* of the blacklist table as they are when it starts, also on a            *)
(* SyncService that has run an invocation before.                          *)
(* loadCache returns at once when the cache of the instance is loaded, and *)
(* runAccountSync calls batchSync in a loop on one SyncService: a domain   *)
(* added to or removed from the table after the first call of the loop is  *)
(* not in, or still in, the cache of the later calls.                      *)
(***************************************************************************)
C33_Original ==
  [][ \A r \in Runners :
        SyncInvoked(r) => domainCache'[r] = <<DOMAIN db.blacklist>> ]_vars

\* the step in which fullSync or incrementalSync of runner r writes SyncState
\* and returns
CursorWritten(r) ==
  /\ inv[r].pc \in {"full", "incr"}
  /\ inv'[r].pc = "idle"
  /\ ret'[r].outcome = "returned"

(***************************************************************************)
(* C37.  The SyncState write at the end of fullSync and of incrementalSync *)
(* sets last_history_id and leaves batch_current_date, batch_page_token    *)
(* and batch_page_number of the account as they are; when the account has  *)
(* no row it creates one, whose batch fields are null and 0; the rows of   *)
(* other accounts are not touched.                                         *)
(***************************************************************************)
C37_CursorWriteKeepsBatchFields ==
  [][ \A r \in Runners :
        CursorWritten(r) =>
          /\ inv[r].account \in DOMAIN db'.sync_state
          /\ getSyncState(db', inv[r].account).last_history_id
               = <<IF inv[r].pc = "full" THEN inv[r].profile ELSE inv[r].latestHistoryId>>
          /\ BatchCursor(db', inv[r].account) = BatchCursor(db, inv[r].account)
          /\ \A a \in DOMAIN db.sync_state \ {inv[r].account} :
                db'.sync_state[a] = db.sync_state[a] ]_vars

\* fullSync or incrementalSync has returned for an account in the middle of a
\* day: the page token and the page number batchSync stored are still there
C37_Witness ==
  /\ ret["cron"].outcome = "returned"
  /\ ret["cron"].via \in {"fullSync", "incrementalSync"}
  /\ getSyncState(db, "work").batch_current_date = <<2000, 1, 1>>
  /\ getSyncState(db, "work").batch_page_token = <<PageSize>>
  /\ getSyncState(db, "work").batch_page_number = 1

\* the write has created the row
C37_WitnessCreated ==
  /\ ret["cron"].outcome = "returned"
  /\ "work" \in DOMAIN db.sync_state
  /\ getSyncState(db, "work").last_history_id = <<Len(InitialLog)>>
  /\ getSyncState(db, "work").batch_current_date = <<>>

(***************************************************************************)
(* C38.  A batchSync call that finds the stored batch_current_date later   *)
(* than today returns a result with messagesProcessed, contactsCreated and *)
(* companiesCreated 0, no errors and hasMore false; it lists no messages,  *)
(* and it leaves every table of the store, SyncState and                   *)
(* processed_messages included, as it is.                                  *)
(***************************************************************************)
C38_CaughtUpTouchesNothing ==
  [][ \A r \in Runners :
        (BatchSyncStart(r) /\ CaughtUp(db, inv[r].account)) =>
          /\ ret'[r].outcome = "returned"
          /\ ret'[r].result.messagesProcessed = 0
          /\ ret'[r].result.contactsCreated = 0
          /\ ret'[r].result.companiesCreated = 0
          /\ ret'[r].result.errors = <<>>
          /\ ret'[r].result.hasMore = FALSE
          /\ lastWindow' = lastWindow
          /\ db' = db
          /\ inv'[r].pc = "idle" ]_vars

\* with no failure so far, m4 has been processed by the batchSync call that
\* finished the second day, and a later call has found the account caught up
C38_Witness ==
  /\ events = 0
  /\ now = 47
  /\ CaughtUp(db, "work")
  /\ "m4" \in DOMAIN db.processed_messages
  /\ ret["cron"].outcome = "returned"
  /\ ret["cron"].via = "batchSync"
  /\ ret["cron"].result.messagesProcessed = 0
  /\ lastWindow["work"] = <<<<2000, 1, 2>>, <<2000, 1, 3>>>>

\* the stored cursor is well formed: not later than tomorrow, and with a
\* page number that is 0 exactly when there is no page token
CursorWellFormed(d, a) ==
  /\ ~LexLess(addDays(isoDay(now), 1), BatchDay(d, a))
  /\ getSyncState(d, a).batch_page_number = 0 <=> getSyncState(d, a).batch_page_token = <<>>

(***************************************************************************)
(* C39.  For every account, through any sequence of batchSync,             *)
(* incrementalSync and fullSync calls, failed and killed ones included,    *)
(* and days passing: the stored batch_current_date never moves back, it is *)
(* never later than the day after today, and the stored batch_page_number  *)
(* is 0 exactly when the stored batch_page_token is null.                  *)
(***************************************************************************)
C39_CursorMonotoneAndBounded ==
  /\ [](\A a \in Accounts : CursorWellFormed(db, a))
  /\ [][ \A a \in Accounts : ~LexLess(BatchDay(db', a), BatchDay(db, a)) ]_vars

\* a day has passed since the account had caught up, and it has caught up again
C39_Witness ==
  /\ now = 71
  /\ getSyncState(db, "work").batch_current_date = <<2000, 1, 4>>
  /\ getSyncState(db, "work").batch_page_token = <<>>
  /\ getSyncState(db, "work").batch_page_number = 0
  /\ lastWindow["work"] = <<<<2000, 1, 3>>, <<2000, 1, 4>>>>

\* the cursor stands in the middle of a day
C39_WitnessPaged ==
  /\ getSyncState(db, "work").batch_page_token # <<>>
  /\ getSyncState(db, "work").batch_page_number = 1
  /\ ret["cron"].via = "batchSync"

(***************************************************************************)
(* Progress.  A sync method that has started runs on: the runtime resumes  *)
(* it after every await, and a call that fails is one of the MaxEvents     *)
(* disturbances of a behaviour.  The cron trigger fires again and again,   *)
(* and runAccountSync calls batchSync for an account that has not caught   *)
(* up (index.ts 206-211), so batchSync starts again and again.  The        *)
(* behaviours are those of batchSync alone: calls, failing messages, a     *)
(* failing store call, a kill, arriving messages and days passing.         *)
(***************************************************************************)
ProgressNext ==
  \/ \E r \in Runners : BatchSyncStart(r)
  \/ \E r \in Runners : BatchSyncMessage(r)
  \/ \E r \in Runners : BatchSyncStoreFails(r)
  \/ \E r \in Runners : BatchSyncPageDone(r)
  \/ \E r \in Runners : Crash(r)
  \/ \E a \in DOMAIN gmail : Arrive(a)
  \/ Tick

\* a batchSync call can start and change the state: no sync method runs for
\* the runner and its account has not caught up
CanStart(r) == inv[r].pc = "idle" /\ ~CaughtUp(db, inv[r].account)

\* the loop of batchSync has a message left
CanIterate(r) == inv[r].pc = "batch" /\ inv[r].idx <= Len(inv[r].messages)

\* Weak fairness of the three steps of batchSync.  For BatchSyncStart and
\* BatchSyncMessage it is written out, WF_vars(A) being
\* []<>(~ENABLED <<A>>_vars) \/ []<><<A>>_vars, with the guard of the action in
\* place of ENABLED: CanStart(r) and CanIterate(r) each imply that the action
\* is enabled and changes the state.
BatchSyncRunsOn ==
  /\ WF_vars(\E r \in Runners : BatchSyncPageDone(r))
  /\ \/ []<>(\A r \in Runners : ~CanStart(r))
     \/ []<><<\E r \in Runners : BatchSyncStart(r)>>_vars
  /\ \/ []<>(\A r \in Runners : ~CanIterate(r))
     \/ []<><<\E r \in Runners : BatchSyncMessage(r)>>_vars

SpecProgress == Init /\ [][ProgressNext]_vars /\ BatchSyncRunsOn

\* (batch day, page number) of the stored cursor
CursorRank(d, a) == Append(BatchDay(d, a), getSyncState(d, a).batch_page_number)

\* the step in which a batchSync call of runner r returns its result, or the
\* whole call when the listing is empty
BatchSyncReturns(r) ==
  \/ BatchSyncPageDone(r)
  \/ BatchSyncStart(r) /\ inv'[r].pc = "idle"

(***************************************************************************)
(* C34.  With batchSync called again and again and every started call      *)
(* running on, an account that has not caught up (its stored batch day is  *)
(* not later than today) catches up; and every batchSync call that finds   *)
(* the account not caught up and returns moves the stored (batch day, page *)
(* number) strictly forward in lexicographic order, whether or not         *)
(* messages of the page failed, while the steps before the return leave    *)
(* the cursor as it is.                                                    *)
(***************************************************************************)
C34_BatchSyncCatchesUp ==
  /\ \A a \in Accounts : (~CaughtUp(db, a)) ~> CaughtUp(db, a)
  /\ [][ \A r \in Runners :
           (BatchSyncReturns(r) /\ ~CaughtUp(db, inv[r].account)) =>
              /\ ret'[r].outcome = "returned"
              /\ LexLess(CursorRank(db, inv[r].account), CursorRank(db', inv[r].account)) ]_vars

\* a batchSync call on a page with a failed message has returned and moved the cursor
C34_Witness ==
  /\ ret["cron"].outcome = "returned"
  /\ ret["cron"].via = "batchSync"
  /\ ret["cron"].result.errors # <<>>
  /\ BatchCursor(db, "work") =
       [batch_current_date |-> <<2000, 1, 1>>, batch_page_token |-> <<PageSize>>, batch_page_number |-> 1]

\* the account has caught up after a call that failed as a whole
C34_WitnessCaughtUp ==
  /\ CaughtUp(db, "work")
  /\ events = MaxEvents
  /\ ret["cron"].via = "batchSync"
  /\ ret["cron"].outcome = "returned"
  /\ "m1" \notin DOMAIN db.processed_messages

(***************************************************************************)
(* index.ts : runAccountSync, run by the scheduled handler for the work    *)
(* and the personal account under one Promise.all.  driver holds the       *)
(* locals of each run: where it stands (pc), hasMore, batchCount,          *)
(* totalMessages, whether the budget check that ended the loop found the   *)
(* budget used up (expired), and the type of the result.  A run calls the  *)
(* sync methods of its own SyncService; ret holds the call it awaits.  The *)
(* personal account starts either like the work account or caught up, with *)
(* m5 arrived since.  Midnight may pass at any moment of the runs.         *)
(***************************************************************************)
\* Time limit per account
MAX_RUNTIME_PER_ACCOUNT_MS == 20000

DriverAccounts == {"work", "personal"}

Run(pc) ==
  [ pc |-> pc, hasMore |-> TRUE, batchCount |-> 0, totalMessages |-> 0, expired |-> FALSE,
    type |-> "none" ]

\* the SyncState row of an account that has caught up on the day before
CaughtUpRow ==
  [ last_history_id |-> <<0>>, batch_current_date |-> <<2000, 1, 3>>,
    batch_page_token |-> <<>>, batch_page_number |-> 0 ]

DriverInit ==
  /\ \E caught \in BOOLEAN :
       db = IF caught THEN [InitDb EXCEPT !.sync_state = Put(@, "personal", CaughtUpRow)]
            ELSE InitDb
  /\ gmail = [a \in DriverAccounts |-> IF a = "work" THEN InitialLog ELSE <<"m5">>]
  /\ now = 47
  /\ idgen = 0
  /\ inv = [a \in DriverAccounts |-> Idle(a)]
  /\ domainCache = [a \in DriverAccounts |-> <<>>]
  /\ kv = <<>>
  /\ driver = [a \in DriverAccounts |-> Run("status")]
  /\ ret = [a \in DriverAccounts |-> NoReturn]
  /\ delivered = {}
  /\ redelivered = {}
  /\ lastWindow = [a \in DriverAccounts |-> <<>>]
  /\ events = 0

\* the result of the catch block
Caught(run) ==
  [run EXCEPT !.pc = "failed", !.type = IF run.batchCount > 0 THEN "batch-partial" ELSE "null"]

\* getSyncStatus and hasCaughtUp; the query may reject
DriverStatus(r) ==
  /\ driver[r].pc = "status"
  /\ \/ /\ driver' = [driver EXCEPT ![r].pc =
                        IF /\ getSyncState(db, r).batch_current_date # <<>>
                           /\ LexLess(isoDay(now), getSyncState(db, r).batch_current_date)
                        THEN "incremental" ELSE "loop"]
        /\ UNCHANGED events
     \/ /\ events < MaxEvents
        /\ events' = events + 1
        /\ driver' = [driver EXCEPT ![r] = Caught(@)]
  /\ UNCHANGED <<db, gmail, now, idgen, inv, domainCache, kv, ret, hist>>

\* await syncService.incrementalSync(): the call
DriverIncrementalSync(r) ==
  /\ driver[r].pc = "incremental"
  /\ ret[r].outcome = "none"
  /\ IncrementalSyncStart(r)

\* while (hasMore && Date.now() - accountStart < MAX_RUNTIME_PER_ACCOUNT_MS)
DriverLoop(r) ==
  /\ driver[r].pc = "loop"
  /\ \E elapsed \in {0, MAX_RUNTIME_PER_ACCOUNT_MS} :
       IF driver[r].hasMore /\ elapsed < MAX_RUNTIME_PER_ACCOUNT_MS
       THEN /\ driver' = [driver EXCEPT ![r].pc = "batch"]
            /\ ret' = [ret EXCEPT ![r] = NoReturn]
       ELSE /\ driver' = [driver EXCEPT ![r].pc = "done", ![r].type = "batch",
                                        ![r].expired = ~(elapsed < MAX_RUNTIME_PER_ACCOUNT_MS)]
            /\ UNCHANGED ret
  /\ UNCHANGED <<db, gmail, now, idgen, inv, domainCache, kv, hist, events>>

\* await syncService.batchSync(): the call
DriverBatchSync(r) ==
  /\ driver[r].pc = "batch"
  /\ ret[r].outcome = "none"
  /\ BatchSyncStart(r)

\* the awaited call has returned
DriverReturned(r) ==
  /\ driver[r].pc \in {"batch", "incremental"}
  /\ ret[r].outcome = "returned"
  /\ driver' = [driver EXCEPT ![r] =
                  IF @.pc = "incremental"
                  THEN [@ EXCEPT !.pc = "done", !.type = "incremental", !.batchCount = 1,
                                 !.totalMessages = ret[r].result.messagesProcessed]
                  ELSE [@ EXCEPT !.pc = "loop", !.batchCount = @ + 1,
                                 !.totalMessages = @ + ret[r].result.messagesProcessed,
                                 !.hasMore = ret[r].result.hasMore]]
  /\ UNCHANGED <<db, gmail, now, idgen, inv, domainCache, kv, ret, hist, events>>

\* the awaited call has thrown: catch (error)
DriverCatch(r) ==
  /\ driver[r].pc \in {"batch", "incremental"}
  /\ ret[r].outcome = "threw"
  /\ driver' = [driver EXCEPT ![r] = Caught(@)]
  /\ UNCHANGED <<db, gmail, now, idgen, inv, domainCache, kv, ret, hist, events>>

\* midnight passes while a run is under way
DriverTick ==
  /\ \E r \in DOMAIN driver : driver[r].pc \notin {"done", "failed"}
  /\ now \div 24 < MaxDays
  /\ now' = now + 24
  /\ UNCHANGED <<driver, db, gmail, idgen, inv, domainCache, kv, ret, hist, events>>

DriverNext ==
  \/ \E r \in Runners : DriverStatus(r)
  \/ \E r \in Runners : DriverIncrementalSync(r)
  \/ \E r \in Runners : DriverLoop(r)
  \/ \E r \in Runners : DriverBatchSync(r)
  \/ \E r \in Runners : DriverReturned(r)
  \/ \E r \in Runners : DriverCatch(r)
  \/ \E r \in Runners : BatchSyncMessage(r)
  \/ \E r \in Runners : BatchSyncStoreFails(r)
  \/ \E r \in Runners : BatchSyncPageDone(r)
  \/ \E r \in Runners : FullSyncMessage(r)
  \/ \E r \in Runners : FullSyncPageDone(r)
  \/ \E r \in Runners : IncrementalSyncHistory(r)
  \/ \E r \in Runners : IncrementalSyncMessage(r)
  \/ \E r \in Runners : IncrementalSyncPageDone(r)
  \/ DriverTick

SpecDriver == DriverInit /\ [][DriverNext]_vars

\* the step in which the while loop of runner r ends and runAccountSync returns
\* its result of type batch
LoopExits(r) ==
  /\ driver[r].pc = "loop"
  /\ driver'[r].pc = "done"

\* the day the batchSync call that returns in this step read as today
TodayOfCall(r) == IF inv[r].pc = "idle" THEN isoDay(now) ELSE inv[r].today

(***************************************************************************)
(* C35 as the claim states it: when the loop of a run ends, the budget is  *)
(* used up or the stored batch day of the account is later than today.     *)
(***************************************************************************)
C35_Original ==
  [][ \A r \in Runners :
        LoopExits(r) => driver'[r].expired \/ CaughtUp(db', r) ]_vars

(***************************************************************************)
(* C35.  The loop of a run ends only at its budget check, with no          *)
(* batchSync call in progress, and only when the budget is used up or the  *)
(* last batchSync call returned hasMore false; a batchSync call returns    *)
(* hasMore false only when the batch day it found or stored is later than  *)
(* the day it read as today at its start; every batchSync call that        *)
(* returns to the loop from an account that had not caught up has moved    *)
(* the stored cursor forward before it returns, and the steps of the       *)
(* driver itself write nothing.                                            *)
(***************************************************************************)
C35_LoopEndsOnBudgetOrCaughtUp ==
  [][ \A r \in Runners :
        /\ LoopExits(r) =>
              /\ driver'[r].expired \/ ~driver[r].hasMore
              /\ driver[r].batchCount > 0 => ret[r].outcome = "returned"
              /\ inv[r].pc = "idle"
        /\ (driver'[r].pc = "done" /\ driver[r].pc # "done") =>
              driver[r].pc \in {"loop", "incremental"}
        /\ (BatchSyncReturns(r) /\ ~ret'[r].result.hasMore) =>
              LexLess(TodayOfCall(r), BatchDay(db', r))
        /\ (BatchSyncReturns(r) /\ ~CaughtUp(db, r)) =>
              LexLess(CursorRank(db, r), CursorRank(db', r))
        /\ driver'[r] # driver[r] =>
              /\ db' = db
              /\ (driver[r].pc = "batch" /\ driver'[r].pc = "loop") =>
                    driver'[r].hasMore = ret[r].result.hasMore ]_vars

\* midnight has passed during the last batchSync call of the work run: the
\* loop has ended within its budget, and the stored batch day is today
C35_Witness ==
  /\ driver["work"].pc = "done"
  /\ driver["work"].type = "batch"
  /\ ~driver["work"].expired
  /\ driver["work"].batchCount = 3
  /\ now = 71
  /\ getSyncState(db, "work").batch_current_date = <<2000, 1, 3>>

\* the loop has ended on its budget in the middle of a day
C35_WitnessBudget ==
  /\ driver["work"].pc = "done"
  /\ driver["work"].expired
  /\ driver["work"].hasMore
  /\ getSyncState(db, "work").batch_page_token = <<PageSize>>

\* the loop has ended within its budget with the account caught up
C35_WitnessCaughtUp ==
  /\ driver["work"].pc = "done"
  /\ ~driver["work"].expired
  /\ CaughtUp(db, "work")
  /\ driver["personal"].pc = "done"

\* the run of runner r has ended: it has returned a result, or null from its catch
Finished(r) == driver[r].pc \in {"done", "failed"}

\* a step of the run of runner r: of runAccountSync or of the sync method it awaits
StepOf(r) == driver'[r] # driver[r] \/ inv'[r] # inv[r] \/ ret'[r] # ret[r]

\* what the run of runner r holds, and the SyncState row of its account
RunOf(d, r) == <<driver[r], inv[r], ret[r], domainCache[r], RowAt(d.sync_state, r)>>

\* Weak fairness of the steps of each run, written out with the condition not
\* Finished(r) under which a run has a step to take: the runtime resumes each
\* of the two promises after every await.
RunsGoOn ==
  \A r \in DriverAccounts : []<>Finished(r) \/ []<><<StepOf(r)>>_vars

SpecDriverProgress == DriverInit /\ [][DriverNext]_vars /\ RunsGoOn

(***************************************************************************)
(* C36.  A step of the run of one account leaves the run of the other      *)
(* account (the locals of runAccountSync, the sync method it awaits, its   *)
(* blacklist cache) and the SyncState row of the other account as they     *)
(* are; the SyncState row of an account changes only in a step of its own  *)
(* run; a run ends in its catch block only on an error of its own calls;   *)
(* and once one run has ended in its catch block, the other run ends too.  *)
(***************************************************************************)
C36_RunsAreIndependent ==
  /\ [][ \A r \in DriverAccounts : \A o \in DriverAccounts \ {r} :
           /\ StepOf(r) => RunOf(db', o) = RunOf(db, o)
           /\ RowAt(db'.sync_state, r) # RowAt(db.sync_state, r) => StepOf(r)
           /\ (driver'[r].pc = "failed" /\ driver[r].pc # "failed") =>
                 \/ ret[r].outcome = "threw"
                 \/ driver[r].pc = "status" ]_vars
  /\ \A r \in DriverAccounts : \A o \in DriverAccounts \ {r} :
        (driver[r].pc = "failed") ~> Finished(o)

\* the work run has ended in its catch block before its first page was done;
\* the personal run has returned, caught up, with m5 processed
C36_Witness ==
  /\ driver["work"].pc = "failed"
  /\ driver["work"].type = "null"
  /\ "work" \notin DOMAIN db.sync_state
  /\ driver["personal"].pc = "done"
  /\ driver["personal"].type = "batch"
  /\ CaughtUp(db, "personal")
  /\ "m5" \in DOMAIN db.processed_messages

====
